---- MODULE Spec2Model ----
(***************************************************************************)
(* Model of the NLQ phrase-to-query translator                             *)
(* (fastapi_backend/src/services/nlq_service.py) and of the request        *)
(* handler that calls it (fastapi_backend/src/routers/nlq.py).             *)
(*                                                                         *)
(* A phrase is a string; the regular expressions of the source are         *)
(* modelled character by character.  Python values are tagged records:     *)
(*   [t |-> "str", s], [t |-> "int", n], [t |-> "float", m, e] (m * 10^e),  *)
(*   [t |-> "datetime", day, tod], [t |-> "dict", d], [t |-> "list", l].   *)
(* A dict is the sequence of its entries [k, v] in insertion order.        *)
(***************************************************************************)
EXTENDS Integers, Sequences, FiniteSets, TLC

VARIABLES
    phrase,     \* the nlq argument the caller passes to parse_nlq_to_query
    clock,      \* the wall clock read by _now_utc: [day, tod]
    calls,      \* completed calls of parse_nlq_to_query, oldest first
    acc,        \* the accumulator dict handed to _merge_and
    pre,        \* the accumulator before the latest _merge_and
    frag,       \* the fragment of the latest _merge_and
    merges,     \* the number of _merge_and calls on acc so far
    settings,   \* the cached Settings instance
    client,     \* db/mongo.py _client: the shared client, or None
    req,        \* the NLQRequest handed to execute_nlq
    resp,       \* what execute_nlq did with it
    threads,    \* the concurrent calls of parse_nlq_to_query, one per thread
    heap,       \* the accumulator dicts the concurrent calls have created, by reference
    mongo,      \* the MONGO_URI of the environment and the log of the calls into db/mongo.py
    env,        \* os.environ: the discrete variables and SUPABASE_DB_HOST_IPV4
    dbconf,     \* what GET /debug/config reported and the URL the engine resolved
    supa,       \* the Supabase client of services/supabase_client.py and the answers of POST /supabase/query
    recog,      \* the latest call of one recognizer by itself on the phrase, and what it returned
    eng,        \* _engine and _SessionLocal of db/sqlalchemy.py, and the calls of get_engine and get_sessionmaker
    app         \* the application of api/main.py: whether its startup hook has run, and the route and the status of the last request

vars == <<phrase, clock, calls, acc, pre, frag, merges, settings, client, req, resp, threads, heap, mongo, env, dbconf, supa, recog, eng, app>>

-----------------------------------------------------------------------------
(* Characters and strings                                                  *)

LowerLetters == "abcdefghijklmnopqrstuvwxyz"
UpperLetters == "ABCDEFGHIJKLMNOPQRSTUVWXYZ"
DigitChars == "0123456789"

Ch(s, i) == SubSeq(s, i, i)

CharsOf(s) == {Ch(s, i) : i \in 1..Len(s)}

Lower == CharsOf(LowerLetters)
Upper == CharsOf(UpperLetters)
Digit == CharsOf(DigitChars)

\* \s
WS == {" ", "\t"}

\* \w
WordCh == Lower \cup Upper \cup Digit \cup {"_"}

\* [a-zA-Z0-9_\.]
FieldCh == WordCh \cup {"."}

\* [a-zA-Z0-9_\-\.]
ColonValueCh == FieldCh \cup {"-"}

\* [a-zA-Z0-9_,\.\s]
FieldsListCh == FieldCh \cup {","} \cup WS

\* [a-zA-Z0-9_,\.\s\-]
InListCh == FieldsListCh \cup {"-"}

\* every character a phrase of the model is written with
Alphabet ==
    InListCh \cup {":", "'", "\"", ">", "<", "=", "+", "*", "$", "(", ")", "?", "!", "#"}

\* [^\s,]
TokenCh == Alphabet \ (WS \cup {","})

\* str.lower() of one character
LowerCh(c) ==
    IF c \in Upper
    THEN Ch(LowerLetters, CHOOSE i \in 1..Len(UpperLetters) : Ch(UpperLetters, i) = c)
    ELSE c

RECURSIVE ToLower(_)
ToLower(s) == IF s = "" THEN "" ELSE LowerCh(Ch(s, 1)) \o ToLower(SubSeq(s, 2, Len(s)))

\* the end (exclusive) of the longest run of characters of class C from i
RECURSIVE SpanEnd(_, _, _)
SpanEnd(s, i, C) ==
    IF i <= Len(s) /\ Ch(s, i) \in C THEN SpanEnd(s, i + 1, C) ELSE i

\* the literal lit (lower case) stands at i, compared as re.IGNORECASE does
LitAt(s, i, lit) ==
    /\ i >= 1
    /\ i + Len(lit) - 1 <= Len(s)
    /\ ToLower(SubSeq(s, i, i + Len(lit) - 1)) = lit

IsWordAt(s, i) == i >= 1 /\ i <= Len(s) /\ Ch(s, i) \in WordCh

\* \b between position i-1 and position i
Boundary(s, i) == IsWordAt(s, i - 1) # IsWordAt(s, i)

MinOf(S) == CHOOSE x \in S : \A y \in S : x <= y

\* str.strip(chars)
RECURSIVE LStrip(_, _)
LStrip(s, C) == IF s # "" /\ Ch(s, 1) \in C THEN LStrip(SubSeq(s, 2, Len(s)), C) ELSE s

RECURSIVE RStrip(_, _)
RStrip(s, C) ==
    IF s # "" /\ Ch(s, Len(s)) \in C THEN RStrip(SubSeq(s, 1, Len(s) - 1), C) ELSE s

Strip(s, C) == RStrip(LStrip(s, C), C)

QuoteCh == {"'", "\""}

HasChar(s, c) == \E i \in 1..Len(s) : Ch(s, i) = c

-----------------------------------------------------------------------------
(* Python values                                                           *)

StrV(s) == [t |-> "str", s |-> s]
IntV(n) == [t |-> "int", n |-> n]
FloatV(m, e) == [t |-> "float", m |-> m, e |-> e]
DictV(d) == [t |-> "dict", d |-> d]
ListV(l) == [t |-> "list", l |-> l]

IsDict(v) == v.t = "dict"
IsList(v) == v.t = "list"

Entry(k, v) == [k |-> k, v |-> v]

EmptyDict == <<>>

HasKey(d, k) == \E i \in 1..Len(d) : d[i].k = k

IndexOfKey(d, k) == CHOOSE i \in 1..Len(d) : d[i].k = k

Get(d, k) == d[IndexOfKey(d, k)].v

\* d[k] = v
Put(d, k, v) ==
    IF HasKey(d, k)
    THEN [d EXCEPT ![IndexOfKey(d, k)] = Entry(k, v)]
    ELSE Append(d, Entry(k, v))

\* d.pop(k)
Remove(d, k) == SelectSeq(d, LAMBDA e : e.k # k)

\* d.update(src)
RECURSIVE Update(_, _)
Update(d, src) ==
    IF src = <<>> THEN d ELSE Update(Put(d, src[1].k, src[1].v), Tail(src))

-----------------------------------------------------------------------------
(* int() and float() of a token, as _parse_number uses them                *)

DigitVal(c) == (CHOOSE i \in 1..Len(DigitChars) : Ch(DigitChars, i) = c) - 1

\* a digit part of a Python numeral: digits, single underscores between them
DigitsValid(s) ==
    /\ s # ""
    /\ \A i \in 1..Len(s) : Ch(s, i) \in Digit \cup {"_"}
    /\ Ch(s, 1) \in Digit
    /\ Ch(s, Len(s)) \in Digit
    /\ \A i \in 1..(Len(s) - 1) : ~(Ch(s, i) = "_" /\ Ch(s, i + 1) = "_")

RECURSIVE DigitsValue(_, _)
DigitsValue(s, n) ==
    IF s = "" THEN n
    ELSE IF Ch(s, 1) = "_" THEN DigitsValue(SubSeq(s, 2, Len(s)), n)
    ELSE DigitsValue(SubSeq(s, 2, Len(s)), 10 * n + DigitVal(Ch(s, 1)))

NumDigits(s) == Cardinality({i \in 1..Len(s) : Ch(s, i) \in Digit})

SignOf(s) == IF s # "" /\ Ch(s, 1) = "-" THEN -1 ELSE 1

Unsigned(s) == IF s # "" /\ Ch(s, 1) \in {"+", "-"} THEN SubSeq(s, 2, Len(s)) ELSE s

\* int(val): [ok, n]; ok = FALSE is ValueError
IntOf(val) ==
    IF DigitsValid(Unsigned(val))
    THEN [ok |-> TRUE, n |-> SignOf(val) * DigitsValue(Unsigned(val), 0)]
    ELSE [ok |-> FALSE, n |-> 0]

\* m * 10^e with no trailing zero in m
RECURSIVE Normal(_, _)
Normal(m, e) ==
    IF m = 0 THEN [m |-> 0, e |-> 0]
    ELSE IF m % 10 = 0 THEN Normal(m \div 10, e + 1)
    ELSE [m |-> m, e |-> e]

FirstIndex(s, C) ==
    IF \E i \in 1..Len(s) : Ch(s, i) \in C
    THEN MinOf({i \in 1..Len(s) : Ch(s, i) \in C})
    ELSE 0

\* float(val): [ok, m, e]; ok = FALSE is ValueError
FloatOf(val) ==
    LET body == Unsigned(val)
        epos == FirstIndex(body, {"e", "E"})
        mant == IF epos = 0 THEN body ELSE SubSeq(body, 1, epos - 1)
        ex   == IF epos = 0 THEN "" ELSE SubSeq(body, epos + 1, Len(body))
        exOk == epos = 0 \/ DigitsValid(Unsigned(ex))
        exV  == IF epos = 0 \/ ~exOk THEN 0
                ELSE SignOf(ex) * DigitsValue(Unsigned(ex), 0)
        dot  == FirstIndex(mant, {"."})
        ip   == IF dot = 0 THEN mant ELSE SubSeq(mant, 1, dot - 1)
        fp   == IF dot = 0 THEN "" ELSE SubSeq(mant, dot + 1, Len(mant))
        ok   == /\ exOk
                /\ ip = "" \/ DigitsValid(ip)
                /\ fp = "" \/ DigitsValid(fp)
                /\ ~(ip = "" /\ fp = "")
        nz   == Normal(DigitsValue(ip \o fp, 0), exV - NumDigits(fp))
    IN  IF ok THEN [ok |-> TRUE, m |-> SignOf(val) * nz.m, e |-> nz.e]
        ELSE [ok |-> FALSE, m |-> 0, e |-> 0]

\* the value of the try block around float(val) / int(val): the number, or val
\* itself on ValueError
FloatOrStr(f, val) == IF f.ok THEN FloatV(f.m, f.e) ELSE StrV(val)

IntOrStr(n, val) == IF n.ok THEN IntV(n.n) ELSE StrV(val)

\* _parse_number trying float() on every token, with or without a "."
ParseNumberFloatFirst(val) == FloatOrStr(FloatOf(val), val)

\* _parse_number
ParseNumber(val) ==
    IF HasChar(val, ".") THEN FloatOrStr(FloatOf(val), val)
    ELSE IntOrStr(IntOf(val), val)

\* _parse_list_csv: the non-blank elements of text.split(","), each stripped
RECURSIVE SplitComma(_)
SplitComma(text) ==
    LET c == FirstIndex(text, {","})
    IN  IF c = 0 THEN <<text>>
        ELSE <<SubSeq(text, 1, c - 1)>> \o SplitComma(SubSeq(text, c + 1, Len(text)))

ParseListCsv(text) ==
    LET parts == SplitComma(text)
        stripped == [i \in 1..Len(parts) |-> Strip(parts[i], WS)]
    IN  SelectSeq(stripped, LAMBDA t : t # "")

\* _ensure_projection without the "_id" it adds
EnsureProjectionAsNamed(fields) ==
    IF ~fields.some \/ fields.v = <<>> THEN [some |-> FALSE]
    ELSE LET RECURSIVE Build(_, _)
             Build(fs, d) ==
                 IF fs = <<>> THEN d ELSE Build(Tail(fs), Put(d, Head(fs), IntV(1)))
         IN  [some |-> TRUE, v |-> Build(fields.v, EmptyDict)]

\* _ensure_projection: None is [some |-> FALSE]
EnsureProjection(fields) ==
    IF ~fields.some \/ fields.v = <<>> THEN [some |-> FALSE]
    ELSE LET RECURSIVE Build(_, _)
             Build(fs, d) ==
                 IF fs = <<>> THEN d ELSE Build(Tail(fs), Put(d, Head(fs), IntV(1)))
             proj == Build(fields.v, EmptyDict)
         IN  [some |-> TRUE,
              v |-> IF HasKey(proj, "_id") THEN proj ELSE Put(proj, "_id", IntV(1))]

-----------------------------------------------------------------------------
(* datetime and timedelta                                                  *)

\* date.min.toordinal(): 0001-01-01
MinOrdinal == 1
\* date.max.toordinal(): 9999-12-31
MaxOrdinal == 3652059
\* timedelta.max.days
MaxTimedeltaDays == 999999999

DtV(day, tod) == [t |-> "datetime", day |-> day, tod |-> tod]

\* Midnight keeping the time of day of now
MidnightKeepsTime(now) == DtV(now.day, now.tod)

\* datetime(now.year, now.month, now.day, tzinfo=timezone.utc)
Midnight(now) == DtV(now.day, 0)

\* timedelta(days=qty * mult): [ok, days]; ok = FALSE is OverflowError
Timedelta(qty, mult) ==
    IF qty > MaxTimedeltaDays \div mult
    THEN [ok |-> FALSE, days |-> 0]
    ELSE [ok |-> TRUE, days |-> qty * mult]

\* dt + timedelta(days): [ok, dt]; ok = FALSE is OverflowError
DtPlus(dt, days) ==
    IF dt.day + days < MinOrdinal \/ dt.day + days > MaxOrdinal
    THEN [ok |-> FALSE, dt |-> dt]
    ELSE [ok |-> TRUE, dt |-> DtV(dt.day + days, dt.tod)]

CreatedAt == "created_at"

None == [some |-> FALSE]
Some(v) == [some |-> TRUE, v |-> v]

NoMatch == [ok |-> FALSE]

MaxOf(S) == CHOOSE x \in S : \A y \in S : x >= y

\* a search that returns the rightmost match
SearchLast(at) ==
    IF \A i \in DOMAIN at : ~at[i].ok THEN NoMatch
    ELSE at[MaxOf({i \in DOMAIN at : at[i].ok})]

\* re.search scans left to right: of the matches at[i] tried at each position
\* i, the leftmost that succeeds
Search(at) ==
    IF \A i \in DOMAIN at : ~at[i].ok THEN NoMatch
    ELSE at[MinOf({i \in DOMAIN at : at[i].ok})]

\* last\s+(\d+)\s*(day|days|week|weeks|month|months)\b at i
UnitWords == <<"day", "days", "week", "weeks", "month", "months">>

LastAt(s, i) ==
    LET j == i + 4
        k == SpanEnd(s, j, WS)
        d == SpanEnd(s, k, Digit)
        u == SpanEnd(s, d, WS)
        fit == {n \in 1..Len(UnitWords) :
                   LitAt(s, u, UnitWords[n]) /\ Boundary(s, u + Len(UnitWords[n]))}
    IN  IF LitAt(s, i, "last") /\ k > j /\ d > k /\ fit # {}
        THEN [ok |-> TRUE,
              qty |-> SubSeq(s, k, d - 1),
              unit |-> ToLower(SubSeq(s, u, u + Len(UnitWords[MinOf(fit)]) - 1)),
              text |-> SubSeq(s, i, u + Len(UnitWords[MinOf(fit)]) - 1)]
        ELSE NoMatch

\* "x" in unit, for a unit word
Contains(unit, x) == \E i \in 1..Len(unit) : LitAt(unit, i, x)

RangeFilter(bounds) == <<Entry(CreatedAt, DictV(bounds))>>

NoCond == [kind |-> "none"]
DictCond(d) == [kind |-> "dict", d |-> d]
Raised(exc) == [kind |-> "raise", exc |-> exc]

\* {"created_at": {"$gte": start, "$lt": end}} with end = start + 1 day
DayFrom(start, end) ==
    IF end.ok
    THEN DictCond(RangeFilter(<<Entry("$gte", start), Entry("$lt", end.dt)>>))
    ELSE Raised("OverflowError")

\* the same with start = end - 1 day
DayUntil(start, end) ==
    IF start.ok
    THEN DictCond(RangeFilter(<<Entry("$gte", start.dt), Entry("$lt", end)>>))
    ELSE Raised("OverflowError")

\* {"created_at": {"$gte": start}}
Since(start) ==
    IF start.ok THEN DictCond(RangeFilter(<<Entry("$gte", start.dt)>>))
    ELSE Raised("OverflowError")

\* the days of one unit: "day" in unit, then "week" in unit, then months
UnitDays(unit) ==
    IF Contains(unit, "day") THEN 1 ELSE IF Contains(unit, "week") THEN 7 ELSE 30

\* start = now - delta
SinceDelta(now, delta) ==
    IF delta.ok THEN Since(DtPlus(now, -delta.days)) ELSE Raised("OverflowError")

\* the branch of the "last N <unit>" match m
SinceLast(m, now) ==
    IF m.ok THEN SinceDelta(now, Timedelta(DigitsValue(m.qty, 0), UnitDays(m.unit)))
    ELSE NoCond

\* the branches of _apply_date_range on t = tokens.lower().strip()
DateRangeOf(t, mid, now) ==
    IF t = "today" THEN DayFrom(mid, DtPlus(mid, 1))
    ELSE IF t = "yesterday" THEN DayUntil(DtPlus(mid, -1), mid)
    ELSE SinceLast(LastAt(t, 1), now)

\* _apply_date_range: [kind |-> "none"], [kind |-> "dict", d] or
\* [kind |-> "raise", exc]
ApplyDateRange(tokens, now) ==
    DateRangeOf(ToLower(Strip(tokens, WS)), Midnight(now), now)

-----------------------------------------------------------------------------
(* Sort, limit/offset and field selection                                  *)

\* sort\s+by\s+([a-zA-Z0-9_\.]+)(?:\s+(asc|desc))? at i
SortAt(s, i) ==
    LET j == i + 4
        w == SpanEnd(s, j, WS)
        q == w + 2
        w2 == SpanEnd(s, q, WS)
        f == SpanEnd(s, w2, FieldCh)
        w3 == SpanEnd(s, f, WS)
        dir == IF w3 > f /\ LitAt(s, w3, "asc") THEN "asc"
               ELSE IF w3 > f /\ LitAt(s, w3, "desc") THEN "desc"
               ELSE "asc"
    IN  IF LitAt(s, i, "sort") /\ w > j /\ LitAt(s, w, "by") /\ w2 > q /\ f > w2
        THEN [ok |-> TRUE, field |-> SubSeq(s, w2, f - 1), dir |-> dir]
        ELSE NoMatch

\* _parse_sort: None or (field, direction)
SortOf(m) ==
    IF ~m.ok THEN None
    ELSE Some(<<StrV(m.field), IntV(IF m.dir # "desc" THEN 1 ELSE -1)>>)

ParseSort(p) == SortOf(Search([i \in 1..Len(p) |-> SortAt(p, i)]))

\* \b<kw>\s+(\d+)\b at i
CountAt(s, i, kw) ==
    LET j == i + Len(kw)
        w == SpanEnd(s, j, WS)
        d == SpanEnd(s, w, Digit)
    IN  IF Boundary(s, i) /\ LitAt(s, i, kw) /\ w > j /\ d > w /\ Boundary(s, d)
        THEN [ok |-> TRUE, n |-> DigitsValue(SubSeq(s, w, d - 1), 0)]
        ELSE NoMatch

\* _parse_limit_offset: [lim, off], each None or an int
\* _parse_limit_offset trying the 'limit' match before the 'top' match
LimitOffsetLimitFirst(m1, m2, m3) ==
    [lim |-> IF m2.ok THEN Some(m2.n) ELSE IF m1.ok THEN Some(m1.n) ELSE None,
     off |-> IF m3.ok THEN Some(m3.n) ELSE None]

\* lim and off from the matches m1 (top), m2 (limit) and m3 (offset)
LimitOffsetOf(m1, m2, m3) ==
    [lim |-> IF m1.ok THEN Some(m1.n) ELSE IF m2.ok THEN Some(m2.n) ELSE None,
     off |-> IF m3.ok THEN Some(m3.n) ELSE None]

ParseLimitOffset(p) ==
    LimitOffsetOf(Search([i \in 1..Len(p) |-> CountAt(p, i, "top")]),
                  Search([i \in 1..Len(p) |-> CountAt(p, i, "limit")]),
                  Search([i \in 1..Len(p) |-> CountAt(p, i, "offset")]))

\* \s+(<class>+) from q, with the backtracking of \s+ into the class, which
\* holds \s: [ok, text]
ListFrom(s, q, C) ==
    LET k == SpanEnd(s, q, WS)
    IN  IF k > q /\ k <= Len(s) /\ Ch(s, k) \in C
        THEN [ok |-> TRUE, text |-> SubSeq(s, k, SpanEnd(s, k, C) - 1)]
        ELSE IF k >= q + 2
        THEN [ok |-> TRUE, text |-> SubSeq(s, k - 1, k - 1)]
        ELSE NoMatch

\* \b(fields|select)\s+([a-zA-Z0-9_,\.\s]+) at i
FieldsAt(s, i) ==
    LET kw == IF LitAt(s, i, "fields") THEN "fields" ELSE "select"
    IN  IF Boundary(s, i) /\ LitAt(s, i, kw)
        THEN ListFrom(s, i + Len(kw), FieldsListCh)
        ELSE NoMatch

\* _parse_fields: None or a list of names
FieldsOf(m) == IF m.ok THEN Some(ParseListCsv(m.text)) ELSE None

ParseFields(p) == FieldsOf(Search([i \in 1..Len(p) |-> FieldsAt(p, i)]))

-----------------------------------------------------------------------------
(* The predicate merger                                                    *)

AndKey == "$and"

\* MergeItem with the elevation keeping only the two colliding predicates:
\* the other top-level predicates are cleared with the accumulator
MergeItemDropsRest(dst, k, v) ==
    IF ~HasKey(dst, k) THEN Append(dst, Entry(k, v))
    ELSE IF IsDict(Get(dst, k)) /\ IsDict(v)
    THEN Put(dst, k, DictV(Update(Get(dst, k).d, v.d)))
    ELSE LET existing == Get(dst, k)
             rest == Remove(dst, k)
             conds == <<DictV(<<Entry(k, existing)>>), DictV(<<Entry(k, v)>>)>>
         IN  IF HasKey(rest, AndKey) /\ IsList(Get(rest, AndKey))
             THEN Put(rest, AndKey, ListV(Get(rest, AndKey).l \o conds))
             ELSE <<Entry(AndKey, ListV(conds))>>

\* MergeItem with the operator maps merged the other way round: an operator of
\* both maps keeps the existing value
MergeItemExistingWins(dst, k, v) ==
    IF ~HasKey(dst, k) THEN Append(dst, Entry(k, v))
    ELSE IF IsDict(Get(dst, k)) /\ IsDict(v)
    THEN Put(dst, k, DictV(Update(Get(dst, k).d,
                                  SelectSeq(v.d, LAMBDA e : ~HasKey(Get(dst, k).d, e.k)))))
    ELSE LET existing == Get(dst, k)
             rest == Remove(dst, k)
             conds == <<DictV(<<Entry(k, existing)>>), DictV(<<Entry(k, v)>>)>>
         IN  IF HasKey(rest, AndKey) /\ IsList(Get(rest, AndKey))
             THEN Put(rest, AndKey, ListV(Get(rest, AndKey).l \o conds))
             ELSE <<Entry(AndKey,
                          ListV([i \in 1..Len(rest) |-> DictV(<<rest[i]>>)] \o conds))>>

\* one iteration of the loop of _merge_and, for the item (k, v) of src
MergeItem(dst, k, v) ==
    IF ~HasKey(dst, k) THEN Append(dst, Entry(k, v))
    ELSE IF IsDict(Get(dst, k)) /\ IsDict(v)
    THEN Put(dst, k, DictV(Update(Get(dst, k).d, v.d)))
    ELSE LET existing == Get(dst, k)
             rest == Remove(dst, k)
             conds == <<DictV(<<Entry(k, existing)>>), DictV(<<Entry(k, v)>>)>>
         IN  IF HasKey(rest, AndKey) /\ IsList(Get(rest, AndKey))
             THEN Put(rest, AndKey, ListV(Get(rest, AndKey).l \o conds))
             ELSE <<Entry(AndKey,
                          ListV([i \in 1..Len(rest) |-> DictV(<<rest[i]>>)] \o conds))>>

\* _merge_and
RECURSIVE MergeAnd(_, _)
MergeAnd(dst, src) ==
    IF src = <<>> THEN dst
    ELSE MergeAnd(MergeItem(dst, src[1].k, src[1].v), Tail(src))

-----------------------------------------------------------------------------
(* The filter recognizers                                                  *)

\* \b<key>\b somewhere in the phrase
KeywordIn(p, key) ==
    \E i \in 1..Len(p) :
        Boundary(p, i) /\ LitAt(p, i, key) /\ Boundary(p, i + Len(key))

\* \b([a-zA-Z0-9_\.]+)\s+<kw>\s+([^\s,]+) at i
KeywordClauseAt(s, i, kw) ==
    LET f == SpanEnd(s, i, FieldCh)
        w == SpanEnd(s, f, WS)
        q == w + Len(kw)
        w2 == SpanEnd(s, q, WS)
        v == SpanEnd(s, w2, TokenCh)
    IN  IF Boundary(s, i) /\ f > i /\ w > f /\ LitAt(s, w, kw) /\ w2 > q /\ v > w2
        THEN [ok |-> TRUE, field |-> SubSeq(s, i, f - 1), val |-> SubSeq(s, w2, v - 1)]
        ELSE NoMatch

\* \b([a-zA-Z0-9_\.]+)\s+(equals|is)\s+([^\s,]+) at i
EqualityAt(s, i) ==
    Search(<<KeywordClauseAt(s, i, "equals"), KeywordClauseAt(s, i, "is")>>)

\* _parse_equality
EqualityOf(m) ==
    IF m.ok
    THEN Some(<<Entry(m.field, ParseNumber(Strip(Strip(m.val, WS), QuoteCh)))>>)
    ELSE None

ParseEquality(p) == EqualityOf(Search([i \in 1..Len(p) |-> EqualityAt(p, i)]))

CompareOps == <<">=", "<=", ">", "<">>

OpMap(op) ==
    CASE op = ">" -> "$gt" [] op = ">=" -> "$gte" [] op = "<" -> "$lt" [] op = "<=" -> "$lte"

\* \b([a-zA-Z0-9_\.]+)\s*(>=|<=|>|<)\s*([^\s,]+) at i: the first operator of
\* the alternation after which a value follows
ComparisonAt(s, i) ==
    LET f == SpanEnd(s, i, FieldCh)
        w == SpanEnd(s, f, WS)
        ValFrom(n) == SpanEnd(s, w + Len(CompareOps[n]), WS)
        fit == {n \in 1..Len(CompareOps) :
                   /\ w + Len(CompareOps[n]) - 1 <= Len(s)
                   /\ SubSeq(s, w, w + Len(CompareOps[n]) - 1) = CompareOps[n]
                   /\ SpanEnd(s, ValFrom(n), TokenCh) > ValFrom(n)}
        n0 == MinOf(fit)
    IN  IF Boundary(s, i) /\ f > i /\ fit # {}
        THEN [ok |-> TRUE, field |-> SubSeq(s, i, f - 1), op |-> CompareOps[n0],
              val |-> SubSeq(s, ValFrom(n0), SpanEnd(s, ValFrom(n0), TokenCh) - 1)]
        ELSE NoMatch

\* _parse_comparison
ComparisonOf(m) ==
    IF m.ok
    THEN Some(<<Entry(m.field, DictV(<<Entry(OpMap(m.op), ParseNumber(m.val))>>))>>)
    ELSE None

ParseComparison(p) == ComparisonOf(Search([i \in 1..Len(p) |-> ComparisonAt(p, i)]))

\* \b([a-zA-Z0-9_\.]+)\s*:\s*([a-zA-Z0-9_\-\.]+) at i
ColonAt(s, i) ==
    LET f == SpanEnd(s, i, FieldCh)
        w == SpanEnd(s, f, WS)
        w2 == SpanEnd(s, w + 1, WS)
        v == SpanEnd(s, w2, ColonValueCh)
    IN  IF Boundary(s, i) /\ f > i /\ w <= Len(s) /\ Ch(s, w) = ":" /\ v > w2
        THEN [ok |-> TRUE, field |-> SubSeq(s, i, f - 1), val |-> SubSeq(s, w2, v - 1)]
        ELSE NoMatch

\* \b([a-zA-Z0-9_\.]+)\s+in\s+([a-zA-Z0-9_,\.\s\-]+) at i
InAt(s, i) ==
    LET f == SpanEnd(s, i, FieldCh)
        w == SpanEnd(s, f, WS)
        l == ListFrom(s, w + 2, InListCh)
    IN  IF Boundary(s, i) /\ f > i /\ w > f /\ LitAt(s, w, "in") /\ l.ok
        THEN [ok |-> TRUE, field |-> SubSeq(s, i, f - 1), text |-> l.text]
        ELSE NoMatch

\* [_parse_number(v) for v in values]
NumbersOf(values) == ListV([i \in 1..Len(values) |-> ParseNumber(values[i])])

\* _parse_category with the membership pattern tried first
CategoryInFirst(m, m2) ==
    IF m2.ok
    THEN Some(<<Entry(m2.field,
                      DictV(<<Entry("$in", NumbersOf(ParseListCsv(m2.text)))>>))>>)
    ELSE IF m.ok THEN Some(<<Entry(m.field, StrV(m.val))>>)
    ELSE None

\* _parse_category, from the match m of the colon pattern and the match m2 of
\* the membership pattern
CategoryOf(m, m2) ==
    IF m.ok THEN Some(<<Entry(m.field, StrV(m.val))>>)
    ELSE IF m2.ok
    THEN Some(<<Entry(m2.field,
                      DictV(<<Entry("$in", NumbersOf(ParseListCsv(m2.text)))>>))>>)
    ELSE None

ParseCategory(p) ==
    CategoryOf(Search([i \in 1..Len(p) |-> ColonAt(p, i)]),
               Search([i \in 1..Len(p) |-> InAt(p, i)]))

\* the characters re.escape puts a backslash before
EscapedCh ==
    {"(", ")", "[", "]", "{", "}", "?", "*", "+", "-", "|", "^", "$", "\\", ".", "&",
     "~", "#", " ", "\t"}

\* re.escape
RECURSIVE ReEscape(_)
ReEscape(s) ==
    IF s = "" THEN ""
    ELSE (IF Ch(s, 1) \in EscapedCh THEN "\\" \o Ch(s, 1) ELSE Ch(s, 1))
             \o ReEscape(SubSeq(s, 2, Len(s)))

\* _parse_contains
ContainsOf(m) ==
    IF m.ok
    THEN Some(<<Entry(m.field,
                      DictV(<<Entry("$regex",
                                    StrV(ReEscape(Strip(Strip(m.val, WS), QuoteCh)))),
                              Entry("$options", StrV("i"))>>))>>)
    ELSE None

ParseContains(p) ==
    ContainsOf(Search([i \in 1..Len(p) |-> KeywordClauseAt(p, i, "contains")]))

-----------------------------------------------------------------------------
(* _collect_filters and parse_nlq_to_query                                 *)

\* the accumulator as one dict shared by all calls: a call starts from the
\* filter the call before it returned
NewFilterShared ==
    IF calls = <<>> \/ calls[Len(calls)].exc # "" THEN EmptyDict
    ELSE Get(calls[Len(calls)].out, "filter").d

\* filt: Dict[str, Any] = {}
NewFilter == EmptyDict

AsCond(opt) == IF opt.some THEN DictCond(opt.v) ELSE NoCond

\* "cond = ...; if cond: _merge_and(filt, cond)", with an exception of the
\* recognizer ending the call
MergeStep(st, cond) ==
    IF st.exc # "" THEN st
    ELSE IF cond.kind = "raise" THEN [exc |-> cond.exc, filt |-> st.filt]
    ELSE IF cond.kind = "dict" /\ cond.d # <<>>
    THEN [exc |-> "", filt |-> MergeAnd(st.filt, cond.d)]
    ELSE st

DateKeys == <<"today", "yesterday">>

\* the recognizers of _collect_filters in the order the code runs them
\* "if m: cond = _apply_date_range(m.group(0), now)"
LastOf(m, now) == IF m.ok THEN ApplyDateRange(m.text, now) ELSE NoCond

Recognized(p, now) ==
    <<IF KeywordIn(p, DateKeys[1]) THEN ApplyDateRange(DateKeys[1], now) ELSE NoCond,
      IF KeywordIn(p, DateKeys[2]) THEN ApplyDateRange(DateKeys[2], now) ELSE NoCond,
      LastOf(Search([i \in 1..Len(p) |-> LastAt(p, i)]), now),
      AsCond(ParseComparison(p)),
      AsCond(ParseEquality(p)),
      AsCond(ParseCategory(p)),
      AsCond(ParseContains(p))>>

RECURSIVE MergeAll(_, _)
MergeAll(st, conds) ==
    IF conds = <<>> THEN st ELSE MergeAll(MergeStep(st, Head(conds)), Tail(conds))

\* _collect_filters: [exc, filt]; exc = "" when it returns filt
CollectFilters(p, now) ==
    MergeAll([exc |-> "", filt |-> NewFilter], Recognized(p, now))

\* out["x"] = v if present
PutIf(d, present, k, v) == IF present THEN Put(d, k, v) ELSE d

\* the descriptor with a limit and an offset of 0 where the phrase has none
AssembleWithZeros(filt, projection, sortSpec, lo) ==
    LET o1 == <<Entry("filter", DictV(filt))>>
        o2 == PutIf(o1, projection.some /\ projection.v # <<>>, "projection",
                    DictV(projection.v))
        o3 == PutIf(o2, sortSpec.some, "sort", ListV(<<ListV(sortSpec.v)>>))
        o4 == Put(o3, "limit", IntV(IF lo.lim.some THEN lo.lim.v ELSE 0))
    IN  Put(o4, "offset", IntV(IF lo.off.some THEN lo.off.v ELSE 0))

\* the descriptor parse_nlq_to_query assembles
Assemble(filt, projection, sortSpec, lo) ==
    LET o1 == <<Entry("filter", DictV(filt))>>
        o2 == PutIf(o1, projection.some /\ projection.v # <<>>, "projection",
                    DictV(projection.v))
        o3 == PutIf(o2, sortSpec.some, "sort", ListV(<<ListV(sortSpec.v)>>))
        o4 == PutIf(o3, lo.lim.some, "limit", IntV(lo.lim.v))
    IN  PutIf(o4, lo.off.some, "offset", IntV(lo.off.v))

\* the body of parse_nlq_to_query after "now = _now_utc()": [exc, out]
DescriptorOf(cf, p) ==
    IF cf.exc # "" THEN [exc |-> cf.exc, out |-> <<>>]
    ELSE [exc |-> "",
          out |-> Assemble(cf.filt, EnsureProjection(ParseFields(p)), ParseSort(p),
                           ParseLimitOffset(p))]

DescriptorAt(p, now) == DescriptorOf(CollectFilters(p, now), p)

ParseAt(nlq, now) == DescriptorAt(Strip(nlq, WS), now)

\* _now_utc
NowUtc == clock

\* parse_nlq_to_query
ParseNlqToQuery(nlq) == ParseAt(nlq, NowUtc)

-----------------------------------------------------------------------------
(* The request handler execute_nlq                                         *)

\* settings.<name>: Settings declares no other attributes than its fields, and
\* reading an attribute it does not have raises AttributeError
HasAttr(name) == name \in DOMAIN settings

\* what a call returns or raises
Ret(v) == [exc |-> "", v |-> v]
Raise(exc) == [exc |-> exc, v |-> None]

\* truth of an Optional[str]
Truthy(x) == x.some /\ x.v # ""

\* get_client
GetClient == client

\* connect_client: what it returns and the _client it leaves; created tells
\* whether AsyncIOMotorClient(...) returns a client, the new client is new
ConnectClientResult(created, new) ==
    IF client.some THEN [ret |-> Ret(client), client |-> client]
    ELSE IF ~HasAttr("MONGO_URI") THEN [ret |-> Raise("AttributeError"), client |-> client]
    ELSE IF ~Truthy(settings["MONGO_URI"]) THEN [ret |-> Ret(None), client |-> client]
    ELSE IF created THEN [ret |-> Ret(Some(new)), client |-> Some(new)]
    ELSE [ret |-> Ret(None), client |-> None]

\* get_database as a call: what it returns or raises
GetDatabaseResult ==
    IF ~GetClient.some THEN Ret(None)
    ELSE IF ~HasAttr("MONGO_DB_NAME") THEN Raise("AttributeError")
    ELSE IF ~Truthy(settings["MONGO_DB_NAME"]) THEN Ret(None)
    ELSE Ret(Some("db"))

\* get_collection(name) as a call: what it returns or raises
GetCollectionResult(name) ==
    IF GetDatabaseResult.exc # "" \/ ~GetDatabaseResult.v.some THEN GetDatabaseResult
    ELSE IF Truthy(name) THEN Ret(Some("coll"))
    ELSE IF ~HasAttr("MONGO_COLLECTION") THEN Raise("AttributeError")
    ELSE IF ~Truthy(settings["MONGO_COLLECTION"]) THEN Ret(None)
    ELSE Ret(Some("coll"))

\* get_database: None while no client is connected
GetDatabase == IF ~GetClient.some THEN None ELSE Some("db")

\* get_collection
GetCollection(name) == IF ~GetDatabase.some THEN None ELSE Some("coll")

\* _coalesce_sort with the precedence inverted: a sort of the phrase is kept
CoalesceSortPhraseWins(r, parsed) ==
    LET dirTok == IF r.params.v.sort_dir.some THEN ToLower(r.params.v.sort_dir.v) ELSE "asc"
    IN  IF HasKey(parsed, "sort") /\ Get(parsed, "sort").l # <<>>
        THEN Some(Get(parsed, "sort").l)
        ELSE IF r.params.some /\ r.params.v.sort_by.some /\ r.params.v.sort_by.v # ""
        THEN Some(<<ListV(<<StrV(r.params.v.sort_by.v),
                            IntV(IF dirTok # "desc" THEN 1 ELSE -1)>>)>>)
        ELSE None

\* _coalesce_sort: None or a list of (field, direction)
CoalesceSort(r, parsed) ==
    LET sortSpec == IF HasKey(parsed, "sort") /\ Get(parsed, "sort").l # <<>>
                    THEN Some(Get(parsed, "sort").l)
                    ELSE None
        dirTok == IF r.params.v.sort_dir.some THEN ToLower(r.params.v.sort_dir.v) ELSE "asc"
    IN  IF r.params.some /\ r.params.v.sort_by.some /\ r.params.v.sort_by.v # ""
        THEN Some(<<ListV(<<StrV(r.params.v.sort_by.v),
                            IntV(IF dirTok # "desc" THEN 1 ELSE -1)>>)>>)
        ELSE sortSpec

DefaultLimit == 50
DefaultOffset == 0

\* the defaults of QueryParams.limit and QueryParams.offset
ParamsDefaultLimit == 50
ParamsDefaultOffset == 0

\* "x or default" that takes only None for absent
OrDefaultKeepsZero(x, default) == IF x.some THEN x.v ELSE default

\* "x or default" for an Optional[int]
OrDefault(x, default) == IF x.some /\ x.v # 0 THEN x.v ELSE default

\* _coalesce_limit_offset: [limit, offset]
CoalesceLimitOffset(r, parsed) ==
    LET lim0 == IF HasKey(parsed, "limit") THEN Some(Get(parsed, "limit").n) ELSE None
        off0 == IF HasKey(parsed, "offset") THEN Some(Get(parsed, "offset").n) ELSE None
        lim == IF r.params.some /\ r.params.v.limit.some THEN r.params.v.limit ELSE lim0
        off == IF r.params.some /\ r.params.v.offset.some THEN r.params.v.offset ELSE off0
    IN  [limit |-> OrDefault(lim, DefaultLimit), offset |-> OrDefault(off, DefaultOffset)]

\* _coalesce_projection: None or a projection dict
CoalesceProjection(r, parsed) ==
    IF r.params.some /\ r.params.v.fields.some /\ r.params.v.fields.v # <<>>
    THEN EnsureProjection(r.params.v.fields)
    ELSE IF HasKey(parsed, "projection") THEN Some(Get(parsed, "projection").d) ELSE None

NoArgs == [reached |-> FALSE]

\* execute_nlq from "parsed = parse_nlq_to_query(req.query)" on
ExecuteParsed(r, parsed) ==
    IF parsed.exc # "" THEN [status |-> 500, args |-> NoArgs]
    ELSE [status |-> IF GetCollection(r.collection).some THEN 200 ELSE 503,
          args |-> [reached |-> TRUE,
                    filter |-> Get(parsed.out, "filter").d,
                    projection |-> CoalesceProjection(r, parsed.out),
                    sort |-> CoalesceSort(r, parsed.out),
                    limit |-> CoalesceLimitOffset(r, parsed.out).limit,
                    offset |-> CoalesceLimitOffset(r, parsed.out).offset]]

\* execute_nlq with the empty-query check before the ENABLE_NLQ check
ExecuteNlqEmptyFirst(r) ==
    IF r.query = "" \/ Strip(r.query, WS) = "" THEN [status |-> 400, args |-> NoArgs]
    ELSE IF ~settings.ENABLE_NLQ THEN [status |-> 404, args |-> NoArgs]
    ELSE ExecuteParsed(r, ParseNlqToQuery(r.query))

\* execute_nlq: the status it answers with and, once the phrase is parsed, the
\* arguments it has coalesced for the query
ExecuteNlqResult(r) ==
    IF ~settings.ENABLE_NLQ THEN [status |-> 404, args |-> NoArgs]
    ELSE IF r.query = "" \/ Strip(r.query, WS) = ""
    THEN [status |-> 400, args |-> NoArgs]
    ELSE ExecuteParsed(r, ParseNlqToQuery(r.query))

-----------------------------------------------------------------------------
(* Bounds of the model                                                     *)

\* calls of parse_nlq_to_query in one behaviour
MaxCalls == 2
\* clock advances in one behaviour
MaxTicks == 1
\* seconds the clock advances in one step
TickSeconds == 43200
\* the day the clock starts on: 2026-11-01
FirstDay == 739921
\* clauses joined into one phrase, for the phrases with date clauses
MaxClauses == 2
\* clauses joined into one phrase, for the phrases with filter clauses
MaxFilterClauses == 3
\* _merge_and calls on one accumulator
MaxMerges == 4
\* clauses joined into one phrase, for the phrases with limit and offset clauses
MaxPageClauses == 3
\* clauses joined into one phrase, for the phrases with keywords in two cases
MaxCaseClauses == 2
\* threads that call parse_nlq_to_query concurrently
NumThreads == 2
\* calls into db/mongo.py in one behaviour
MaxMongoCalls == 3
\* requests to POST /supabase/query in one behaviour
MaxSupabaseCalls == 3
\* calls of get_engine and get_sessionmaker in one behaviour
MaxEngineCalls == 3
\* clauses joined into one phrase, for the phrases the recognizers are called on
MaxRecogClauses == 2

SecondsPerDay == 86400

StartClock == DtV(FirstDay, SecondsPerDay - 1)

\* the phrases of up to n clauses of Cl, joined by one blank
RECURSIVE PhrasesUpTo(_, _)
PhrasesUpTo(Cl, n) ==
    IF n = 0 THEN {""}
    ELSE LET shorter == PhrasesUpTo(Cl, n - 1)
         IN  shorter \cup {IF p = "" THEN c ELSE p \o " " \o c : p \in shorter, c \in Cl}

DateClauses ==
    {"today", "Yesterday", "last 10 days", "Last 2 Months", "last 3weeks",
     "last 1000000 days", "x equals 1 top 7"}

FilterClauses ==
    {"status equals active", "status equals closed", "status: open",
     "status contains act", "status > 3", "x in a,b"}

CoerceClauses ==
    {"age > 10", "age > 10.5", "age > ten", "age >= -3", "n equals 007", "n is '2.50'",
     "n is 1.2.3", "k in 1, 2.5,z"}

ShapeClauses ==
    {" ", "fields name,age", "fields ,", "sort by y desc", "top 5", "offset 2",
     "status is open"}

DatePhrases == PhrasesUpTo(DateClauses, MaxClauses)

ShapePhrases == PhrasesUpTo(ShapeClauses, MaxClauses)

FilterPhrases == PhrasesUpTo(FilterClauses, MaxFilterClauses)

CoercePhrases == PhrasesUpTo(CoerceClauses, MaxClauses)

-----------------------------------------------------------------------------
(* The state machine                                                       *)

NoReq == [query |-> "", collection |-> None, sent |-> None, params |-> None]
NoResp == [status |-> 0, args |-> NoArgs]

\* pc of a thread that has not called yet, that has left _collect_filters, and
\* that has returned or raised
PcIdle == 0
PcAssemble == 8
PcDone == 9

NoThread ==
    [pc |-> PcIdle, phrase |-> "", now |-> StartClock, ref |-> 0, exc |-> "", out |-> <<>>]

InitThreads ==
    /\ threads = [t \in 1..NumThreads |-> NoThread]
    /\ heap = [r \in 1..NumThreads |-> EmptyDict]

\* none of the variables the database configuration reads is set
NoEnv == [n \in {"user", "password", "host", "port", "dbname", "SUPABASE_DB_HOST_IPV4"} |-> None]

\* no report of GET /debug/config and no URL resolved yet
NoDbConf == [report |-> None, url |-> None]

\* no call into db/mongo.py yet, MONGO_URI not in the environment
NoMongo == [uri |-> None, made |-> 0, log |-> <<>>]

\* the application before its startup hook, with no request answered
NoApp == [started |-> FALSE, route |-> "", status |-> 0]

\* a thread that is in no call of get_engine or get_sessionmaker
NoCaller == [pc |-> "idle", fn |-> ""]

\* _engine and _SessionLocal unset, and no call yet: made counts the engines
\* and the session factories created, used is the sources a URL was resolved
\* from, raised the exceptions of the calls, engines and factories what the
\* calls returned
NoEng ==
    [engine |-> None, factory |-> None, made |-> [e |-> 0, f |-> 0], calls |-> 0,
     used |-> {}, raised |-> {}, engines |-> {}, factories |-> {},
     th |-> [t \in 1..NumThreads |-> NoCaller]]

\* no Supabase client and no request to POST /supabase/query yet
NoSupa == [client |-> None, made |-> 0, log |-> <<>>]

InitParser ==
    /\ clock = StartClock
    /\ calls = <<>>
    /\ InitThreads
    /\ mongo = NoMongo
    /\ env = NoEnv
    /\ dbconf = NoDbConf
    /\ supa = NoSupa
    /\ recog = <<>>
    /\ eng = NoEng /\ app = NoApp

InitMerge ==
    /\ acc = EmptyDict
    /\ pre = EmptyDict
    /\ frag = EmptyDict
    /\ merges = 0

InitHandler ==
    /\ settings = [ENABLE_NLQ |-> TRUE]
    /\ client = None
    /\ req = NoReq
    /\ resp = NoResp

\* what one call leaves in the record of calls
Returned(nlq, now, r) == [phrase |-> nlq, now |-> now, exc |-> r.exc, out |-> r.out]

\* a caller calls parse_nlq_to_query(phrase)
Parse ==
    /\ Len(calls) < MaxCalls
    /\ calls' = Append(calls, Returned(phrase, NowUtc, ParseNlqToQuery(phrase)))
    /\ UNCHANGED <<phrase, clock, acc, pre, frag, merges, settings, client, req, resp, threads, heap, mongo, env, dbconf, supa, recog, eng, app>>

Elapsed == (clock.day - FirstDay) * SecondsPerDay + clock.tod - StartClock.tod

\* the wall clock advances
Tick ==
    /\ Elapsed < MaxTicks * TickSeconds
    /\ Len(calls) < MaxCalls
    /\ clock' = DtV(clock.day + (clock.tod + TickSeconds) \div SecondsPerDay,
                    (clock.tod + TickSeconds) % SecondsPerDay)
    /\ UNCHANGED <<phrase, calls, acc, pre, frag, merges, settings, client, req, resp, threads, heap, mongo, env, dbconf, supa, recog, eng, app>>

Init ==
    /\ phrase \in DatePhrases
    /\ InitParser /\ InitMerge /\ InitHandler

Next == Parse \/ Tick

\* parse_nlq_to_query called on phrases with date clauses while the clock runs
Spec == Init /\ [][Next]_vars

InitFilter ==
    /\ phrase \in FilterPhrases
    /\ InitParser /\ InitMerge /\ InitHandler

NextFilter == Parse

\* parse_nlq_to_query called on phrases with filter clauses
SpecFilter == InitFilter /\ [][NextFilter]_vars

InitCoerce ==
    /\ phrase \in CoercePhrases
    /\ InitParser /\ InitMerge /\ InitHandler

\* parse_nlq_to_query called on phrases with numeric and other values
SpecCoerce == InitCoerce /\ [][NextFilter]_vars

-----------------------------------------------------------------------------
(* Database configuration: db/sqlalchemy.py and routers/debug.py           *)

\* str.startswith
StartsWith(s, p) == Len(s) >= Len(p) /\ SubSeq(s, 1, Len(p)) = p

\* the positions at which p occurs in s
Occurrences(s, p) == {i \in 1..(Len(s) - Len(p) + 1) : SubSeq(s, i, i + Len(p) - 1) = p}

\* p in s
HasSub(s, p) == Occurrences(s, p) # {}

\* the two parts of s around the occurrence of p at i
SplitAt(s, p, i) == <<SubSeq(s, 1, i - 1), SubSeq(s, i + Len(p), Len(s))>>

\* s.split(p, 1) and s.rsplit(p, 1) of an s that has p in it
SplitOnce(s, p) == SplitAt(s, p, MinOf(Occurrences(s, p)))
RSplitOnce(s, p) == SplitAt(s, p, MaxOf(Occurrences(s, p)))

\* s.split(p, 1) if p in s else ("", s)
CutRight(s, p) == IF HasSub(s, p) THEN SplitOnce(s, p) ELSE <<"", s>>

\* s.split(p, 1) if p in s else (s, "")
CutLeft(s, p) == IF HasSub(s, p) THEN SplitOnce(s, p) ELSE <<s, "">>

\* s.replace(old, new, 1)
ReplaceFirst(s, old, new) ==
    IF HasSub(s, old) THEN SplitOnce(s, old)[1] \o new \o SplitOnce(s, old)[2] ELSE s

\* os.getenv(name)
Getenv(name) == env[name]

\* (x or "").strip()
OrEmptyStrip(x) == IF x.some THEN Strip(x.v, WS) ELSE ""

\* getattr(settings, name, None)
GetAttr(name) == IF HasAttr(name) THEN settings[name] ELSE None

\* the discrete variables of the environment
DiscreteRequired == {"user", "password", "host", "dbname"}
DiscreteVars == DiscreteRequired \cup {"port"}

\* os.getenv("port") or "5432", then any other port replaced with 5432
DiscretePort(port) == IF port # "5432" THEN "5432" ELSE port

\* _build_url_from_discrete_env
BuildUrlFromDiscreteEnv ==
    IF \E n \in DiscreteRequired : ~Truthy(Getenv(n)) THEN None
    ELSE Some("postgresql+psycopg2://" \o Getenv("user").v \o ":" \o Getenv("password").v
              \o "@" \o Getenv("host").v \o ":"
              \o DiscretePort(IF Truthy(Getenv("port")) THEN Getenv("port").v ELSE "5432")
              \o "/" \o Getenv("dbname").v \o "?sslmode=require")

\* _append_sslmode_require
AppendSslmodeRequire(url) ==
    IF ~(StartsWith(url, "postgresql://") \/ StartsWith(url, "postgresql+psycopg2://")) THEN url
    ELSE IF HasSub(url, "sslmode=") THEN url
    ELSE url \o (IF HasSub(url, "?") THEN "&sslmode=require" ELSE "?sslmode=require")

\* _ensure_psycopg2_scheme
EnsurePsycopg2Scheme(url) ==
    IF StartsWith(url, "postgresql://")
    THEN ReplaceFirst(url, "postgresql://", "postgresql+psycopg2://")
    ELSE url

\* scheme, creds, host[:port], database path and query of a URL that has "://"
PartsHostDb(scheme, creds, hd, query) ==
    [scheme |-> scheme, creds |-> creds, host_port |-> hd[1], dbpath |-> hd[2],
     query |-> query]
PartsQuery(scheme, creds, hq) == PartsHostDb(scheme, creds, CutLeft(hq[1], "/"), hq[2])
PartsCreds(scheme, ch) == PartsQuery(scheme, ch[1], CutLeft(ch[2], "?"))
PartsScheme(sr) == PartsCreds(sr[1], CutRight(sr[2], "@"))
UrlParts(url) == PartsScheme(SplitOnce(url, "://"))

\* the URL rebuilt around a new host:port
Rebuilt(u, new_host_port) ==
    u.scheme \o "://" \o (IF u.creds # "" THEN u.creds \o "@" ELSE "")
    \o (IF u.dbpath # "" THEN new_host_port \o "/" \o u.dbpath ELSE new_host_port)
    \o (IF u.query # "" THEN "?" \o u.query ELSE "")

\* host of host[:port]
HostOf(host_port) == IF HasSub(host_port, ":") THEN RSplitOnce(host_port, ":")[1] ELSE host_port

\* port of host[:port], 5432 without one
PortOf(host_port) == IF HasSub(host_port, ":") THEN RSplitOnce(host_port, ":")[2] ELSE "5432"

\* _ensure_port_5432
EnsurePort5432(url) ==
    IF ~HasSub(url, "://") THEN url
    ELSE Rebuilt(UrlParts(url), HostOf(UrlParts(url).host_port) \o ":5432")

\* _apply_ipv4_host_override
Ipv4Override(url, ipv4) ==
    IF ipv4 = "" THEN url
    ELSE IF ~HasSub(url, "://") THEN url
    ELSE Rebuilt(UrlParts(url), ipv4 \o ":" \o PortOf(UrlParts(url).host_port))
ApplyIpv4HostOverride(url) == Ipv4Override(url, OrEmptyStrip(Getenv("SUPABASE_DB_HOST_IPV4")))

\* the normalisation _get_db_url applies to a connection string of the settings
Normalised(url) ==
    ApplyIpv4HostOverride(AppendSslmodeRequire(EnsurePort5432(EnsurePsycopg2Scheme(url))))

\* what _get_db_url returns from the branch that reads source
Resolved(source, url) == [exc |-> "", source |-> source, url |-> url]

\* _get_db_url with SUPABASE_DB_CONNECTION_STRING read before DATABASE_URL
GetDbUrlLegacyFirst ==
    IF OrEmptyStrip(GetAttr("SUPABASE_DB_URL")) # ""
    THEN Resolved("SUPABASE_DB_URL", Normalised(OrEmptyStrip(GetAttr("SUPABASE_DB_URL"))))
    ELSE IF OrEmptyStrip(settings.SUPABASE_DB_CONNECTION_STRING) # ""
    THEN Resolved("SUPABASE_DB_CONNECTION_STRING",
                  Normalised(OrEmptyStrip(settings.SUPABASE_DB_CONNECTION_STRING)))
    ELSE IF OrEmptyStrip(settings.DATABASE_URL) # ""
    THEN Resolved("DATABASE_URL", Normalised(OrEmptyStrip(settings.DATABASE_URL)))
    ELSE IF Truthy(BuildUrlFromDiscreteEnv)
    THEN Resolved("discrete", ApplyIpv4HostOverride(EnsurePort5432(BuildUrlFromDiscreteEnv.v)))
    ELSE [exc |-> "ValueError", source |-> "", url |-> ""]

\* _get_db_url: the URL it returns and the source the URL was read from, or
\* the ValueError it raises
GetDbUrl ==
    IF OrEmptyStrip(GetAttr("SUPABASE_DB_URL")) # ""
    THEN Resolved("SUPABASE_DB_URL", Normalised(OrEmptyStrip(GetAttr("SUPABASE_DB_URL"))))
    ELSE IF OrEmptyStrip(settings.DATABASE_URL) # ""
    THEN Resolved("DATABASE_URL", Normalised(OrEmptyStrip(settings.DATABASE_URL)))
    ELSE IF OrEmptyStrip(settings.SUPABASE_DB_CONNECTION_STRING) # ""
    THEN Resolved("SUPABASE_DB_CONNECTION_STRING",
                  Normalised(OrEmptyStrip(settings.SUPABASE_DB_CONNECTION_STRING)))
    ELSE IF Truthy(BuildUrlFromDiscreteEnv)
    THEN Resolved("discrete", ApplyIpv4HostOverride(EnsurePort5432(BuildUrlFromDiscreteEnv.v)))
    ELSE [exc |-> "ValueError", source |-> "", url |-> ""]

\* _detect_db_source
DetectDbSource ==
    IF OrEmptyStrip(settings.DATABASE_URL) # "" THEN "DATABASE_URL"
    ELSE IF OrEmptyStrip(settings.SUPABASE_DB_CONNECTION_STRING) # ""
    THEN "SUPABASE_DB_CONNECTION_STRING"
    ELSE IF \A n \in DiscreteVars : OrEmptyStrip(Getenv(n)) # "" THEN "discrete"
    ELSE "unconfigured"

\* _redact_env_url of a URL that has "://", from its scheme and the rest
RedactCreds(scheme, ch) ==
    IF HasSub(ch[1], ":")
    THEN scheme \o "://" \o SplitOnce(ch[1], ":")[1] \o ":****@" \o ch[2]
    ELSE scheme \o "://****@" \o ch[2]
RedactRest(sr) ==
    IF HasSub(sr[2], "@") THEN RedactCreds(sr[1], SplitOnce(sr[2], "@"))
    ELSE sr[1] \o "://" \o sr[2]

\* _redact_env_url
RedactEnvUrl(url) ==
    IF ~Truthy(url) THEN None
    ELSE IF ~HasSub(url.v, "://") THEN url
    ELSE Some(RedactRest(SplitOnce(url.v, "://")))

\* x or None
OrNone(x) == IF x = "" THEN None ELSE Some(x)

\* host, port and database of _parse_effective_params_from_url
EffHostPort(host_port, database) ==
    IF HasSub(host_port, ":")
    THEN [host |-> Some(RSplitOnce(host_port, ":")[1]),
          port |-> Some(RSplitOnce(host_port, ":")[2]), database |-> database]
    ELSE [host |-> OrNone(host_port), port |-> None, database |-> database]
EffHostDb(hostpart) ==
    IF HasSub(hostpart, "/")
    THEN EffHostPort(SplitOnce(hostpart, "/")[1], OrNone(SplitOnce(hostpart, "/")[2]))
    ELSE EffHostPort(hostpart, None)
EffHostPart(hostpart) ==
    IF HasSub(hostpart, "?") THEN EffHostDb(SplitOnce(hostpart, "?")[1]) ELSE EffHostDb(hostpart)
EffRest(rest) == IF HasSub(rest, "@") THEN EffHostPart(SplitOnce(rest, "@")[2]) ELSE EffHostPart(rest)
EffLocation(url) ==
    IF HasSub(url, "://") THEN EffRest(SplitOnce(url, "://")[2])
    ELSE [host |-> None, port |-> None, database |-> None]

\* the dict of effective parameters with its location
EffWith(loc, redacted, driver, sslmode_present) ==
    [url_redacted |-> redacted, driver |-> driver, sslmode_present |-> sslmode_present,
     host |-> loc.host, port |-> loc.port, database |-> loc.database]

\* _parse_effective_params_from_url
ParseEffectiveParamsFromUrl(url) ==
    IF url = ""
    THEN [url_redacted |-> None, driver |-> "unknown", sslmode_present |-> FALSE,
          host |-> None, port |-> None, database |-> None]
    ELSE EffWith(EffLocation(url), RedactEnvUrl(Some(url)),
                 IF HasSub(url, "psycopg2") THEN "psycopg2" ELSE "unknown",
                 HasSub(url, "sslmode="))

\* _env_presence
EnvPresence ==
    [DATABASE_URL_set |-> OrEmptyStrip(settings.DATABASE_URL) # "",
     SUPABASE_DB_CONNECTION_STRING_set |->
         OrEmptyStrip(settings.SUPABASE_DB_CONNECTION_STRING) # "",
     discrete |-> [user_set |-> OrEmptyStrip(Getenv("user")) # "",
                   password_set |-> OrEmptyStrip(Getenv("password")) # "",
                   host_set |-> OrEmptyStrip(Getenv("host")) # "",
                   port_set |-> OrEmptyStrip(Getenv("port")) # "",
                   dbname_set |-> OrEmptyStrip(Getenv("dbname")) # ""]]

\* a or b, of Optional[str]
Or(a, b) == IF Truthy(a) THEN a ELSE b

\* the DBConfigDebug that debug_config builds
Payload(src, eff, presence, db_url_redacted, legacy_url_redacted) ==
    [source |-> src, host |-> eff.host, port |-> eff.port, database |-> eff.database,
     sslmode_present |-> eff.sslmode_present, driver |-> eff.driver,
     redacted_url |->
         IF Truthy(Or(eff.url_redacted, Or(db_url_redacted, legacy_url_redacted)))
         THEN Or(eff.url_redacted, Or(db_url_redacted, legacy_url_redacted)).v
         ELSE "",
     env_presence |->
         [DATABASE_URL_set |-> presence.DATABASE_URL_set,
          SUPABASE_DB_CONNECTION_STRING_set |-> presence.SUPABASE_DB_CONNECTION_STRING_set,
          discrete |-> presence.discrete,
          raw_env_urls |-> [DATABASE_URL |-> db_url_redacted,
                            SUPABASE_DB_CONNECTION_STRING |-> legacy_url_redacted],
          no_db_mode |-> TRUE],
     notes |->
         IF presence.DATABASE_URL_set /\ presence.SUPABASE_DB_CONNECTION_STRING_set
         THEN Some("Both DATABASE_URL and SUPABASE_DB_CONNECTION_STRING are set. DATABASE_URL takes precedence.")
         ELSE None]

\* the effective parameters of debug_config for the URL it chose
EffOf(url) ==
    IF url # "" THEN ParseEffectiveParamsFromUrl(url)
    ELSE [url_redacted |-> Some("<unconfigured>"), driver |-> "unknown",
          sslmode_present |-> FALSE, host |-> None, port |-> None, database |-> None]

\* debug_config
DebugConfig ==
    Payload(DetectDbSource,
            EffOf(IF OrEmptyStrip(settings.DATABASE_URL) # ""
                  THEN OrEmptyStrip(settings.DATABASE_URL)
                  ELSE OrEmptyStrip(settings.SUPABASE_DB_CONNECTION_STRING)),
            EnvPresence,
            RedactEnvUrl(settings.DATABASE_URL),
            RedactEnvUrl(settings.SUPABASE_DB_CONNECTION_STRING))

-----------------------------------------------------------------------------

\* the log of the calls into db/mongo.py with one more call: its name, what it
\* returned and the _client before and after it
Logged(op, ret, after) ==
    [mongo EXCEPT !.log = Append(@, [op |-> op, ret |-> ret, before |-> client,
                                     after |-> after])]

\* await connect_client(ping)
ConnectClient(ping, created) ==
    /\ Len(mongo.log) < MaxMongoCalls
    /\ client' = ConnectClientResult(created, mongo.made + 1).client
    /\ mongo' = [Logged("connect_client", ConnectClientResult(created, mongo.made + 1).ret,
                        ConnectClientResult(created, mongo.made + 1).client)
                    EXCEPT !.made = IF ConnectClientResult(created, @ + 1).client = client
                                    THEN @ ELSE @ + 1]
    /\ UNCHANGED <<phrase, clock, calls, acc, pre, frag, merges, settings, req, resp, threads,
                   heap, env, dbconf, supa, recog, eng, app>>

\* get_client(), get_database() or get_collection(name)
Lookup(op, ret) ==
    /\ Len(mongo.log) < MaxMongoCalls
    /\ mongo' = Logged(op, ret, client)
    /\ UNCHANGED <<phrase, clock, calls, acc, pre, frag, merges, settings, client, req, resp,
                   threads, heap, env, dbconf, supa, recog, eng, app>>

\* await close_client()
CloseClient ==
    /\ Len(mongo.log) < MaxMongoCalls
    /\ client' = None
    /\ mongo' = Logged("close_client", Ret(None), None)
    /\ UNCHANGED <<phrase, clock, calls, acc, pre, frag, merges, settings, req, resp, threads,
                   heap, env, dbconf, supa, recog, eng, app>>

\* MONGO_URI in the environment: unset, empty or a connection string
MongoUris == {None, Some(""), Some("mongodb://h/db")}

\* the names get_collection is called with
CollectionNames == {None, Some("items")}

InitMongo ==
    /\ phrase = ""
    /\ clock = StartClock /\ calls = <<>> /\ InitThreads
    /\ env = NoEnv /\ dbconf = NoDbConf /\ supa = NoSupa /\ recog = <<>> /\ eng = NoEng /\ app = NoApp
    /\ InitMerge /\ InitHandler
    /\ mongo \in {[NoMongo EXCEPT !.uri = u] : u \in MongoUris}

NextMongo ==
    \/ \E ping \in BOOLEAN, created \in BOOLEAN : ConnectClient(ping, created)
    \/ Lookup("get_client", Ret(GetClient))
    \/ Lookup("get_database", GetDatabaseResult)
    \/ \E name \in CollectionNames : Lookup("get_collection", GetCollectionResult(name))
    \/ CloseClient

\* any sequence of calls into db/mongo.py
SpecMongo == InitMongo /\ [][NextMongo]_vars

\* GET /debug/config
GetDebugConfig ==
    /\ ~dbconf.report.some
    /\ dbconf' = [dbconf EXCEPT !.report = Some(DebugConfig)]
    /\ UNCHANGED <<phrase, clock, calls, acc, pre, frag, merges, settings, client, req, resp,
                   threads, heap, mongo, env, supa, recog, eng, app>>

\* the first use of the engine, which resolves the URL
ResolveDbUrl ==
    /\ ~dbconf.url.some
    /\ dbconf' = [dbconf EXCEPT !.url = Some(GetDbUrl)]
    /\ UNCHANGED <<phrase, clock, calls, acc, pre, frag, merges, settings, client, req, resp,
                   threads, heap, mongo, env, supa, recog, eng, app>>

\* a connection string of the settings: unset, blank, or a URL
SupabaseDbUrls == {None, Some(" "), Some(" postgresql://u:p@db.example.co:6543/postgres ")}
DatabaseUrls == {None, Some(""), Some("postgresql+psycopg2://u@h/app?sslmode=disable")}
LegacyUrls == {None, Some(" "), Some("postgres://h:5432")}

\* the values of a discrete variable: unset, blank, or a value
DiscreteValues(n) ==
    IF n = "port" THEN {None, Some(""), Some("6543")}
    ELSE IF n \in {"user", "dbname"} THEN {None, Some(" "), Some(n)}
    ELSE {None, Some(n)}

\* SUPABASE_DB_HOST_IPV4: unset or an address
Ipv4Values == {None, Some("10.0.0.7")}

\* the environments of the model
Environments ==
    {d @@ ("SUPABASE_DB_HOST_IPV4" :> i) :
        d \in {f \in [DiscreteVars -> UNION {DiscreteValues(n) : n \in DiscreteVars}] :
                    \A n \in DiscreteVars : f[n] \in DiscreteValues(n)},
        i \in Ipv4Values}

InitDb ==
    /\ phrase = ""
    /\ clock = StartClock /\ calls = <<>> /\ InitThreads /\ mongo = NoMongo /\ supa = NoSupa /\ recog = <<>> /\ eng = NoEng /\ app = NoApp
    /\ InitMerge
    /\ client = None /\ req = NoReq /\ resp = NoResp
    /\ settings \in {[ENABLE_NLQ |-> TRUE, SUPABASE_DB_URL |-> p, DATABASE_URL |-> d,
                      SUPABASE_DB_CONNECTION_STRING |-> l] :
                        p \in SupabaseDbUrls, d \in DatabaseUrls, l \in LegacyUrls}
    /\ env \in Environments
    /\ dbconf = NoDbConf

NextDb == GetDebugConfig \/ ResolveDbUrl

\* one environment, the report of GET /debug/config and the URL of the engine
SpecDb == InitDb /\ [][NextDb]_vars

\* the thread t at the step pc of its call
At(t, pc) == [eng EXCEPT !.th[t].pc = pc]

\* a thread calls get_engine() or get_sessionmaker()
CallAccessor(t, fn) ==
    /\ eng.th[t].pc = "idle"
    /\ eng.calls < MaxEngineCalls
    /\ eng' = [eng EXCEPT !.th[t] = [pc |-> "check", fn |-> fn], !.calls = @ + 1]
    /\ UNCHANGED <<phrase, clock, calls, acc, pre, frag, merges, settings, client, req, resp,
                   threads, heap, mongo, env, dbconf, supa, recog, app>>

\* "if _engine is not None and _SessionLocal is not None: return"
CheckInitialized(t) ==
    /\ eng.th[t].pc = "check"
    /\ eng' = At(t, IF eng.engine.some /\ eng.factory.some THEN "return" ELSE "resolve")
    /\ UNCHANGED <<phrase, clock, calls, acc, pre, frag, merges, settings, client, req, resp,
                   threads, heap, mongo, env, dbconf, supa, recog, app>>

\* the call whose _get_db_url() returned or raised r
UrlResolved(t, r) ==
    IF r.exc # ""
    THEN [eng EXCEPT !.th[t] = NoCaller, !.raised = @ \cup {r.exc}]
    ELSE [eng EXCEPT !.th[t].pc = "create_engine", !.used = @ \cup {r.source}]

\* "db_url = _get_db_url()"
ResolveUrl(t) ==
    /\ eng.th[t].pc = "resolve"
    /\ eng' = UrlResolved(t, GetDbUrl)
    /\ UNCHANGED <<phrase, clock, calls, acc, pre, frag, merges, settings, client, req, resp,
                   threads, heap, mongo, env, dbconf, supa, recog, app>>

\* "_engine = create_engine(db_url, ...)", which returns a new engine or
\* raises (a URL it cannot parse, a driver that is not installed)
CreateEngine(t, created) ==
    /\ eng.th[t].pc = "create_engine"
    /\ eng' = IF created
              THEN [eng EXCEPT !.th[t].pc = "sessionmaker", !.made.e = @ + 1,
                               !.engine = Some(eng.made.e + 1)]
              ELSE [eng EXCEPT !.th[t] = NoCaller, !.raised = @ \cup {"create_engine"}]
    /\ UNCHANGED <<phrase, clock, calls, acc, pre, frag, merges, settings, client, req, resp,
                   threads, heap, mongo, env, dbconf, supa, recog, app>>

\* "_SessionLocal = sessionmaker(bind=_engine, ...)": a new factory bound to
\* the engine _engine names at that moment
CreateSessionmaker(t) ==
    /\ eng.th[t].pc = "sessionmaker"
    /\ eng' = [eng EXCEPT !.th[t].pc = "return", !.made.f = @ + 1,
                          !.factory = Some([id |-> eng.made.f + 1, bind |-> eng.engine.v])]
    /\ UNCHANGED <<phrase, clock, calls, acc, pre, frag, merges, settings, client, req, resp,
                   threads, heap, mongo, env, dbconf, supa, recog, app>>

\* "return _engine" of get_engine, "return _SessionLocal" of get_sessionmaker
ReturnAccessor(t) ==
    /\ eng.th[t].pc = "return"
    /\ eng' = IF eng.th[t].fn = "get_engine"
              THEN [eng EXCEPT !.th[t] = NoCaller, !.engines = @ \cup {eng.engine.v}]
              ELSE [eng EXCEPT !.th[t] = NoCaller, !.factories = @ \cup {eng.factory.v}]
    /\ UNCHANGED <<phrase, clock, calls, acc, pre, frag, merges, settings, client, req, resp,
                   threads, heap, mongo, env, dbconf, supa, recog, app>>

\* the accessors of the engine
Accessors == {"get_engine", "get_sessionmaker"}

\* one step of the thread t
EngineStep(t) ==
    \/ \E fn \in Accessors : CallAccessor(t, fn)
    \/ CheckInitialized(t)
    \/ ResolveUrl(t)
    \/ \E created \in BOOLEAN : CreateEngine(t, created)
    \/ CreateSessionmaker(t)
    \/ ReturnAccessor(t)

\* the settings with no connection string, and with DATABASE_URL
NoUrls ==
    [ENABLE_NLQ |-> TRUE, SUPABASE_DB_URL |-> None, DATABASE_URL |-> None,
     SUPABASE_DB_CONNECTION_STRING |-> None]
EngineSettings == {NoUrls, [NoUrls EXCEPT !.DATABASE_URL = Some("postgresql://u:p@h/app")]}

InitEngine ==
    /\ phrase = ""
    /\ InitParser /\ InitMerge
    /\ client = None /\ req = NoReq /\ resp = NoResp
    /\ settings \in EngineSettings

NextEngine == \E t \in 1..NumThreads : EngineStep(t)

\* request threads that call get_engine and get_sessionmaker concurrently
SpecEngine == InitEngine /\ [][NextEngine]_vars

\* the environments of the calls that run one at a time
AccessEnvironments ==
    {[NoEnv EXCEPT !["user"] = u, !["password"] = p, !["host"] = Some("host"),
                   !["dbname"] = Some("dbname")] :
        u \in {None, Some(" "), Some("user")}, p \in {None, Some("password")}}

InitAccess ==
    /\ phrase = ""
    /\ clock = StartClock /\ calls = <<>> /\ InitThreads /\ mongo = NoMongo
    /\ dbconf = NoDbConf /\ supa = NoSupa /\ recog = <<>> /\ eng = NoEng /\ app = NoApp
    /\ InitMerge
    /\ client = None /\ req = NoReq /\ resp = NoResp
    /\ settings \in {[ENABLE_NLQ |-> TRUE, SUPABASE_DB_URL |-> p, DATABASE_URL |-> d,
                      SUPABASE_DB_CONNECTION_STRING |-> l] :
                        p \in SupabaseDbUrls, d \in DatabaseUrls, l \in LegacyUrls}
    /\ env \in AccessEnvironments

NextAccess == EngineStep(1)

\* calls of get_engine and get_sessionmaker one at a time, under every
\* configuration of the sources
SpecAccess == InitAccess /\ [][NextAccess]_vars

-----------------------------------------------------------------------------
(* The Supabase endpoint: routers/supabase.py, services/supabase_client.py *)

\* _is_configured, which is_supabase_enabled returns
IsConfigured ==
    /\ settings.ENABLE_SUPABASE
    /\ OrEmptyStrip(settings.SUPABASE_URL) # ""
    /\ OrEmptyStrip(settings.SUPABASE_ANON_KEY) # ""

\* _validate_enabled_or_404: the status it raises, 0 when it returns
ValidateEnabledOr404 ==
    IF ~IsConfigured THEN 404
    ELSE IF ~Truthy(settings.SUPABASE_URL) \/ ~Truthy(settings.SUPABASE_ANON_KEY) THEN 503
    ELSE 0

\* get_supabase_client: the client it returns, which it also leaves in
\* _client; created tells whether the import and create_client succeed
GetSupabaseClient(created) ==
    IF supa.client.some THEN supa.client
    ELSE IF ~IsConfigured THEN None
    ELSE IF created THEN Some(supa.made + 1)
    ELSE None

\* the status after q.execute(): rows, an error in the response, or an
\* exception of the client
ExecuteStatus(outcome) == IF outcome = "rows" THEN 200 ELSE 500

\* supabase_query: its status, whether it reached the client, and the
\* _client it leaves
SupabaseQueryResult(created, outcome) ==
    IF ValidateEnabledOr404 # 0
    THEN [status |-> ValidateEnabledOr404, reached |-> FALSE, client |-> supa.client]
    ELSE IF ~GetSupabaseClient(created).some
    THEN [status |-> 503, reached |-> FALSE, client |-> None]
    ELSE [status |-> ExecuteStatus(outcome), reached |-> TRUE,
          client |-> GetSupabaseClient(created)]

\* the record of the requests with one more answer
Answered(r) ==
    [client |-> r.client,
     made |-> IF r.client = supa.client THEN supa.made ELSE supa.made + 1,
     log |-> Append(supa.log, [status |-> r.status, reached |-> r.reached])]

\* POST /supabase/query
SupabaseQuery(created, outcome) ==
    /\ Len(supa.log) < MaxSupabaseCalls
    /\ supa' = Answered(SupabaseQueryResult(created, outcome))
    /\ UNCHANGED <<phrase, clock, calls, acc, pre, frag, merges, settings, client, req, resp,
                   threads, heap, mongo, env, dbconf, recog, eng, app>>

\* SUPABASE_URL and SUPABASE_ANON_KEY: unset, empty, blank or a value
SupabaseUrls == {None, Some(""), Some(" "), Some("https://p.supabase.co")}
SupabaseKeys == {None, Some(" "), Some("anon")}

\* what q.execute() does
ExecuteOutcomes == {"rows", "error", "exception"}

InitSupabase ==
    /\ phrase = ""
    /\ clock = StartClock /\ calls = <<>> /\ InitThreads /\ mongo = NoMongo
    /\ env = NoEnv /\ dbconf = NoDbConf /\ supa = NoSupa /\ recog = <<>> /\ eng = NoEng /\ app = NoApp
    /\ InitMerge
    /\ client = None /\ req = NoReq /\ resp = NoResp
    /\ settings \in {[ENABLE_NLQ |-> TRUE, ENABLE_SUPABASE |-> e, SUPABASE_URL |-> u,
                      SUPABASE_ANON_KEY |-> k] :
                        e \in BOOLEAN, u \in SupabaseUrls, k \in SupabaseKeys}

NextSupabase ==
    \E created \in BOOLEAN, outcome \in ExecuteOutcomes : SupabaseQuery(created, outcome)

\* requests to POST /supabase/query under one configuration
SpecSupabase == InitSupabase /\ [][NextSupabase]_vars

\* the reference of the dict that "filt: Dict[str, Any] = {}" creates in the call
\* of thread t, with one dict object for all calls
AllocFilterShared(t) == 1

\* the reference of the dict that "filt: Dict[str, Any] = {}" creates in the call
\* of thread t: a new object in every call
AllocFilter(t) == t

\* thread t calls parse_nlq_to_query(nlq): the phrase is stripped, the clock is
\* read and _collect_filters creates its accumulator
Begin(t, nlq) ==
    /\ threads[t].pc = PcIdle
    /\ threads' = [threads EXCEPT ![t] = [pc |-> 1, phrase |-> Strip(nlq, WS), now |-> NowUtc,
                                          ref |-> AllocFilter(t), exc |-> "", out |-> <<>>]]
    /\ heap' = [heap EXCEPT ![AllocFilter(t)] = NewFilter]
    /\ UNCHANGED <<phrase, clock, calls, acc, pre, frag, merges, settings, client, req, resp, mongo, env, dbconf, supa, recog, eng, app>>

\* the thread and the heap after the recognizer step that left st = [exc, filt]
Stepped(t, st) ==
    /\ threads' = [threads EXCEPT ![t].pc = IF st.exc # "" THEN PcDone ELSE @ + 1,
                                  ![t].exc = st.exc]
    /\ heap' = [heap EXCEPT ![threads[t].ref] = st.filt]

\* thread t runs the next recognizer of _collect_filters and merges its
\* fragment into the accumulator of its call
Recognize(t) ==
    /\ threads[t].pc \in 1..(PcAssemble - 1)
    /\ Stepped(t, MergeStep([exc |-> "", filt |-> heap[threads[t].ref]],
                            Recognized(threads[t].phrase, threads[t].now)[threads[t].pc]))
    /\ UNCHANGED <<phrase, clock, calls, acc, pre, frag, merges, settings, client, req, resp, mongo, env, dbconf, supa, recog, eng, app>>

\* thread t parses sort, limit/offset and fields, assembles the descriptor
\* around its accumulator and returns it
Return(t) ==
    /\ threads[t].pc = PcAssemble
    /\ threads' = [threads EXCEPT
                      ![t].pc = PcDone,
                      ![t].out = DescriptorOf([exc |-> "", filt |-> heap[threads[t].ref]],
                                              threads[t].phrase).out]
    /\ UNCHANGED <<phrase, clock, calls, acc, pre, frag, merges, settings, client, req, resp,
                   heap, mongo, env, dbconf, supa, recog, eng, app>>

\* the phrases the concurrent calls are made with
ThreadPhrases ==
    {"status equals active status: open", " today x > 1 sort by y top 5",
     "x is 1 last 1000000 days"}

InitThreaded ==
    /\ phrase = ""
    /\ InitParser /\ InitMerge /\ InitHandler

NextThreaded ==
    \/ \E t \in 1..NumThreads, nlq \in ThreadPhrases : Begin(t, nlq)
    \/ \E t \in 1..NumThreads : Recognize(t)
    \/ \E t \in 1..NumThreads : Return(t)

\* calls of parse_nlq_to_query from NumThreads threads, interleaved at the
\* recognizer steps
SpecThreaded == InitThreaded /\ [][NextThreaded]_vars

\* clauses with every recognizer keyword, and the same clauses with the letters
\* of the keywords in the other case
CaseClauses ==
    <<[text |-> "today", other |-> "TODAY"],
      [text |-> "yesterday", other |-> "Yesterday"],
      [text |-> "last 2 weeks", other |-> "LAST 2 WEEKS"],
      [text |-> "x equals 1", other |-> "x EQUALS 1"],
      [text |-> "s is open", other |-> "s Is open"],
      [text |-> "k in a,b", other |-> "k IN a,b"],
      [text |-> "t contains a", other |-> "t CONTAINS a"],
      [text |-> "sort by y desc", other |-> "SORT BY y DESC"],
      [text |-> "top 5", other |-> "TOP 5"],
      [text |-> "LIMIT 7", other |-> "limit 7"],
      [text |-> "offset 2", other |-> "OFFSET 2"],
      [text |-> "fields name", other |-> "FIELDS name"],
      [text |-> "select age", other |-> "Select age"]>>

\* the strings of ws joined by one blank
RECURSIVE JoinWords(_)
JoinWords(ws) ==
    IF ws = <<>> THEN ""
    ELSE IF Len(ws) = 1 THEN ws[1]
    ELSE ws[1] \o " " \o JoinWords(Tail(ws))

\* the phrases of up to MaxCaseClauses clauses, each with the phrase that
\* differs from it in the case of the keywords only
CasePairs ==
    {[text |-> JoinWords([i \in 1..Len(is) |-> CaseClauses[is[i]].text]),
      other |-> JoinWords([i \in 1..Len(is) |-> CaseClauses[is[i]].other])] :
        is \in UNION {[1..k -> 1..Len(CaseClauses)] : k \in 0..MaxCaseClauses}}

InitCase ==
    /\ phrase \in {pr.text : pr \in CasePairs}
    /\ InitParser /\ InitMerge /\ InitHandler

\* parse_nlq_to_query called on phrases with every recognizer keyword
SpecCase == InitCase /\ [][NextFilter]_vars

InitShape ==
    /\ phrase \in ShapePhrases
    /\ InitParser /\ InitMerge /\ InitHandler

\* parse_nlq_to_query called on phrases with and without each optional clause
SpecShape == InitShape /\ [][NextFilter]_vars

\* the fields and values of the fragments handed to _merge_and
FragFields == {"x", "y"}

FragValues ==
    <<StrV("a"), StrV("b"), DictV(<<Entry("$gt", IntV(1))>>), DictV(<<Entry("$lt", IntV(2))>>),
      DictV(<<Entry("$gt", IntV(3)), Entry("$lte", IntV(9))>>)>>

\* _merge_and(acc, {k: v})
Merge(k, v) ==
    /\ merges < MaxMerges
    /\ pre' = acc
    /\ frag' = <<Entry(k, v)>>
    /\ acc' = MergeAnd(acc, <<Entry(k, v)>>)
    /\ merges' = merges + 1
    /\ UNCHANGED <<phrase, clock, calls, settings, client, req, resp, threads, heap, mongo, env, dbconf, supa, recog, eng, app>>

InitMergeOnly ==
    /\ phrase = ""
    /\ InitParser /\ InitMerge /\ InitHandler

NextMerge == \E k \in FragFields, i \in 1..Len(FragValues) : Merge(k, FragValues[i])

\* any sequence of _merge_and calls on one accumulator, from the empty one
SpecMerge == InitMergeOnly /\ [][NextMerge]_vars

\* the clauses of the phrases _parse_category is called on: a colon form, a
\* membership form or another clause, with the field and the value it names
CategoryClauses ==
    <<[text |-> "category: 5", kind |-> "colon", field |-> "category", v |-> StrV("5")],
      [text |-> "status : Retail-1", kind |-> "colon", field |-> "status",
       v |-> StrV("Retail-1")],
      [text |-> "k in 1, 2.5,z", kind |-> "in", field |-> "k",
       v |-> ListV(<<IntV(1), FloatV(25, -1), StrV("z")>>)],
      [text |-> "tag in a-b", kind |-> "in", field |-> "tag", v |-> ListV(<<StrV("a-b")>>)],
      [text |-> "x > 1", kind |-> "other", field |-> "", v |-> StrV("")]>>

\* the phrases of up to n clauses of the table Cl, each with the indices of
\* its clauses
CasesOf(Cl, n) ==
    {[text |-> JoinWords([i \in 1..Len(is) |-> Cl[is[i]].text]), is |-> is] :
        is \in UNION {[1..k -> 1..Len(Cl)] : k \in 0..n}}

CategoryCases == CasesOf(CategoryClauses, MaxRecogClauses)

\* the clauses of the phrases with several clauses of one recognizer: the
\* recognizer, and the field and the predicate the clause names
FirstClauses ==
    <<[text |-> "x > 1", kind |-> "comparison", field |-> "x",
       v |-> DictV(<<Entry("$gt", IntV(1))>>)],
      [text |-> "x < 9", kind |-> "comparison", field |-> "x",
       v |-> DictV(<<Entry("$lt", IntV(9))>>)],
      [text |-> "y >= 2", kind |-> "comparison", field |-> "y",
       v |-> DictV(<<Entry("$gte", IntV(2))>>)],
      [text |-> "s equals a", kind |-> "equality", field |-> "s", v |-> StrV("a")],
      [text |-> "s is 2", kind |-> "equality", field |-> "s", v |-> IntV(2)],
      [text |-> "n contains foo", kind |-> "contains", field |-> "n",
       v |-> DictV(<<Entry("$regex", StrV("foo")), Entry("$options", StrV("i"))>>)],
      [text |-> "m contains bar", kind |-> "contains", field |-> "m",
       v |-> DictV(<<Entry("$regex", StrV("bar")), Entry("$options", StrV("i"))>>)]>>

FirstCases == CasesOf(FirstClauses, MaxRecogClauses)

\* the clauses with a comma-separated list, and the clauses put after them
ListClauses == {"fields a,b", "select a,b", "x in a,b"}
Followers == {"top 5", "offset 3", "sort by z"}

FollowPhrases == ListClauses \cup {l \o " " \o f : l \in ListClauses, f \in Followers}

RecogPhrases == {pr.text : pr \in CategoryCases \cup FirstCases} \cup FollowPhrases

\* the recognizers called by themselves
RecognizerNames == {"comparison", "equality", "category", "contains"}

\* what the recognizer returns for the phrase
RecognizerResult(name, p) ==
    CASE name = "comparison" -> ParseComparison(p)
      [] name = "equality" -> ParseEquality(p)
      [] name = "category" -> ParseCategory(p)
      [] name = "contains" -> ParseContains(p)

\* one recognizer is called on the phrase; recog keeps the latest call
Recognizer(name) ==
    /\ recog' = <<[name |-> name, out |-> RecognizerResult(name, phrase)]>>
    /\ UNCHANGED <<phrase, clock, calls, acc, pre, frag, merges, settings, client, req, resp,
                   threads, heap, mongo, env, dbconf, supa, eng, app>>

InitRecog ==
    /\ phrase \in RecogPhrases
    /\ InitParser /\ InitMerge /\ InitHandler

NextRecog == Parse \/ \E name \in RecognizerNames : Recognizer(name)

\* the recognizers and parse_nlq_to_query called on phrases of their clauses
SpecRecog == InitRecog /\ [][NextRecog]_vars

\* the limit and offset clauses: the text, the keyword it is a clause of ("" for
\* a clause of another recognizer) and its number
PageClauses ==
    <<[text |-> "top 5", kw |-> "top", n |-> 5],
      [text |-> "limit 7", kw |-> "limit", n |-> 7],
      [text |-> "offset 10", kw |-> "offset", n |-> 10],
      [text |-> "Top 3", kw |-> "top", n |-> 3],
      [text |-> "top 0", kw |-> "top", n |-> 0],
      [text |-> "x is 1", kw |-> "", n |-> 0]>>

\* the sequences of up to n clauses, as indices into PageClauses
ClauseSeqs(n) == UNION {[1..k -> 1..Len(PageClauses)] : k \in 0..n}

\* the clauses of is joined by one blank
RECURSIVE JoinPage(_)
JoinPage(is) ==
    IF is = <<>> THEN ""
    ELSE IF Len(is) = 1 THEN PageClauses[is[1]].text
    ELSE PageClauses[is[1]].text \o " " \o JoinPage(Tail(is))

PagePhrases == {JoinPage(is) : is \in ClauseSeqs(MaxPageClauses)}

InitPage ==
    /\ phrase \in PagePhrases
    /\ InitParser /\ InitMerge /\ InitHandler

\* parse_nlq_to_query called on phrases with limit and offset clauses
SpecPage == InitPage /\ [][NextFilter]_vars

\* the requests sent to POST /nlq/query
ExecQueries ==
    {"", "  ", "status is open", "sort by y", "sort by y desc",
     "status is open sort by y asc top 5 offset 10", "last 1000000 days",
     "top 5 offset 10", "fields name,age", "select _id , name",
     "top 0", "limit 0 offset 0", "top 0 limit 7"}

\* the members of the "params" object of a request body; None is a member the
\* body leaves out, and for sort_dir Some(None) is an explicit null
SentFields == {None, Some(<<"name", "age">>), Some(<<"_id", "name">>)}
SentSortBy == {None, Some(""), Some("x")}
SentSortDir == {None, Some(None), Some(Some("asc")), Some(Some("desc"))}
SentLimit == {None, Some(5), Some(50)}
SentOffset == {None, Some(0), Some(3)}

\* the "params" of the request bodies: left out, or an object
ExecSent ==
    {None} \cup
    {Some([fields |-> f, sort_by |-> sb, sort_dir |-> sd, limit |-> l, offset |-> o]) :
        f \in SentFields, sb \in SentSortBy, sd \in SentSortDir,
        l \in SentLimit, o \in SentOffset}

\* QueryParams: the validated model, with the default of each member the body
\* leaves out (sort_dir "asc", limit 50, offset 0)
QueryParams(b) ==
    [fields |-> b.fields,
     sort_by |-> b.sort_by,
     sort_dir |-> IF b.sort_dir.some THEN b.sort_dir.v ELSE Some("asc"),
     limit |-> IF b.limit.some THEN b.limit ELSE Some(ParamsDefaultLimit),
     offset |-> IF b.offset.some THEN b.offset ELSE Some(ParamsDefaultOffset)]

\* NLQRequest.params: Optional[QueryParams]
ParamsOf(sent) == IF sent.some THEN Some(QueryParams(sent.v)) ELSE None

\* NLQRequest, built from a body with the phrase q and the params sent
NLQRequest(q, sent) ==
    [query |-> q, collection |-> None, sent |-> sent, params |-> ParamsOf(sent)]

\* POST /nlq/query with the request req
ExecuteNlq ==
    /\ resp = NoResp
    /\ resp' = ExecuteNlqResult(req)
    /\ UNCHANGED <<phrase, clock, calls, acc, pre, frag, merges, settings, client, req, threads, heap, mongo, env, dbconf, supa, recog, eng, app>>

InitExec ==
    /\ phrase = ""
    /\ InitParser /\ InitMerge
    /\ settings \in {[ENABLE_NLQ |-> b] : b \in BOOLEAN}
    /\ client = None
    /\ req \in {NLQRequest(q, sent) : q \in ExecQueries, sent \in ExecSent}
    /\ resp = NoResp

NextExec == ExecuteNlq

\* one request handled by execute_nlq
SpecExec == InitExec /\ [][NextExec]_vars

\* _engine and _SessionLocal after the get_engine() of the startup hook, which
\* runs before any request: the whole of _ensure_engine_initialized
StartedEngine(r, created) ==
    IF r.exc # "" THEN [eng EXCEPT !.calls = 1, !.raised = {r.exc}]
    ELSE IF ~created THEN [eng EXCEPT !.calls = 1, !.used = {r.source},
                                      !.raised = {"create_engine"}]
    ELSE [eng EXCEPT !.calls = 1, !.used = {r.source}, !.made = [e |-> 1, f |-> 1],
                     !.engine = Some(1), !.factory = Some([id |-> 1, bind |-> 1]),
                     !.engines = {1}]

\* startup_event: it initialises the SQLAlchemy engine and swallows every
\* exception; it makes no call into db/mongo.py, so _client is left as it is
StartupEvent(created) ==
    /\ ~app.started
    /\ app' = [app EXCEPT !.started = TRUE]
    /\ eng' = StartedEngine(GetDbUrl, created)
    /\ UNCHANGED <<phrase, clock, calls, acc, pre, frag, merges, settings, client,
                   threads, heap, mongo, env, dbconf, supa, recog, req, resp>>

\* the routes of routers/data.py
DataRoutes ==
    {"GET /data", "GET /data/{item_id}", "POST /data", "PUT /data/{item_id}",
     "DELETE /data/{item_id}"}

\* _get_coll_or_503, the first statement of every handler of routers/data.py:
\* 503 without a collection, else the handler goes on to the database
GetCollOr503 == IF GetCollection(None).some THEN 200 ELSE 503

\* a request to a route of routers/data.py
DataRequest(route) ==
    /\ app.started
    /\ app' = [app EXCEPT !.route = route, !.status = GetCollOr503]
    /\ UNCHANGED <<phrase, clock, calls, acc, pre, frag, merges, settings, client,
                   threads, heap, mongo, env, dbconf, supa, recog, req, resp, eng>>

\* POST /nlq/query with the body r
PostNlqQuery(r) ==
    /\ app.started
    /\ req' = r
    /\ resp' = ExecuteNlqResult(r)
    /\ app' = [app EXCEPT !.route = "POST /nlq/query", !.status = ExecuteNlqResult(r).status]
    /\ UNCHANGED <<phrase, clock, calls, acc, pre, frag, merges, settings, client,
                   threads, heap, mongo, env, dbconf, supa, recog, eng>>

\* the "params" of the bodies sent to the application
AppSent ==
    {None, Some([fields |-> None, sort_by |-> None, sort_dir |-> None,
                 limit |-> Some(5), offset |-> None])}

InitApp ==
    /\ phrase = ""
    /\ InitParser /\ InitMerge
    /\ settings \in {[s EXCEPT !.ENABLE_NLQ = b] : s \in EngineSettings, b \in BOOLEAN}
    /\ client = None
    /\ req = NoReq /\ resp = NoResp

NextApp ==
    \/ \E created \in BOOLEAN : StartupEvent(created)
    \/ \E route \in DataRoutes : DataRequest(route)
    \/ \E q \in ExecQueries, sent \in AppSent : PostNlqQuery(NLQRequest(q, sent))

\* the application from its start on: the startup hook, then requests
SpecApp == InitApp /\ [][NextApp]_vars

-----------------------------------------------------------------------------
(* Properties                                                              *)

\* the members of the $and list of a filter
AndList(d) == IF HasKey(d, AndKey) /\ IsList(Get(d, AndKey)) THEN Get(d, AndKey).l ELSE <<>>

\* the predicate {k: v} is a top-level entry of d
HeldTop(d, k, v) == \E i \in 1..Len(d) : d[i].k = k /\ d[i].v = v

\* the predicate {k: v} is a member of the $and list of d
HeldAnd(d, k, v) == \E i \in 1..Len(AndList(d)) : AndList(d)[i] = DictV(<<Entry(k, v)>>)

Held(d, k, v) == HeldTop(d, k, v) \/ HeldAnd(d, k, v)

\* the filter a completed call returned
FilterOf(c) == Get(c.out, "filter").d

EqualityClauses ==
    {[text |-> "status equals active", field |-> "status", val |-> StrV("active")],
     [text |-> "status equals closed", field |-> "status", val |-> StrV("closed")]}

\* C1: for a phrase of two equality clauses on the same field with different
\* values, the returned filter holds both predicates, as a top-level key or in
\* the $and list.
C1_BothEqualityPredicatesKept ==
    \A n \in 1..Len(calls) : \A e1 \in EqualityClauses, e2 \in EqualityClauses :
        (e1.val # e2.val /\ e1.field = e2.field
            /\ calls[n].phrase = e1.text \o " " \o e2.text)
        => /\ calls[n].exc = ""
           /\ Held(FilterOf(calls[n]), e1.field, e1.val)
           /\ Held(FilterOf(calls[n]), e2.field, e2.val)

\* the latest merge met a field that was a top-level key with at least one of
\* the two values a plain literal
LiteralConflict ==
    /\ merges > 0
    /\ HasKey(pre, frag[1].k)
    /\ ~(IsDict(Get(pre, frag[1].k)) /\ IsDict(frag[1].v))

\* C2: after a merge with a literal conflict, the existing and the incoming
\* predicate are both members of the $and list, and every predicate the
\* accumulator held before the merge is still held after it.
C2_LiteralConflictIsLossless ==
    LiteralConflict =>
        /\ HeldAnd(acc, frag[1].k, Get(pre, frag[1].k))
        /\ HeldAnd(acc, frag[1].k, frag[1].v)
        /\ \A i \in 1..Len(pre) : pre[i].k # AndKey => Held(acc, pre[i].k, pre[i].v)
        /\ \A j \in 1..Len(AndList(pre)) :
               \E m \in 1..Len(AndList(acc)) : AndList(acc)[m] = AndList(pre)[j]

\* a literal conflict on one field while another field was a top-level key
C2_Witness ==
    /\ LiteralConflict
    /\ \E i \in 1..Len(pre) : pre[i].k \notin {AndKey, frag[1].k}
    /\ Len(AndList(acc)) >= 3

\* C3: in every returned filter, a field with a member in the $and list has no
\* predicate left as a top-level key.
C3_ElevatedFieldNotTopLevel ==
    \A n \in 1..Len(calls) :
        calls[n].exc = "" =>
            LET f == FilterOf(calls[n])
            IN  \A i \in 1..Len(f) :
                    f[i].k # AndKey =>
                        \A j \in 1..Len(AndList(f)) : AndList(f)[j].d[1].k # f[i].k

\* C4: parse_nlq_to_query raises no error, whatever the phrase.
C4_ParserNeverRaises == \A n \in 1..Len(calls) : calls[n].exc = ""

SameResult(c, d) == c.exc = d.exc /\ c.out = d.out

C6_SameArgumentSameDescriptor ==
    \A i \in 1..Len(calls), j \in 1..Len(calls) :
        calls[i].phrase = calls[j].phrase => SameResult(calls[i], calls[j])

\* created_at in [lo 00:00, hi 00:00)
DayRange(lo, hi) == DictV(<<Entry("$gte", DtV(lo, 0)), Entry("$lt", DtV(hi, 0))>>)

OtherClause == "x equals 1 top 7"

Around(c) == {c, c \o " " \o OtherClause, OtherClause \o " " \o c}

\* C7: 'today' yields created_at in [midnight(T), midnight(T) + 1 day) and
\* 'yesterday' yields created_at in [midnight(T) - 1 day, midnight(T)).
C7_DayBoundaries ==
    \A n \in 1..Len(calls) :
        LET c == calls[n]
        IN  /\ c.phrase = "today"
                => c.exc = ""
                   /\ FilterOf(c) = <<Entry(CreatedAt, DayRange(c.now.day, c.now.day + 1))>>
            /\ c.phrase = "Yesterday"
                => c.exc = ""
                   /\ FilterOf(c) = <<Entry(CreatedAt, DayRange(c.now.day - 1, c.now.day))>>
            /\ c.phrase \in Around("today")
                => c.exc = ""
                   /\ HeldTop(FilterOf(c), CreatedAt, DayRange(c.now.day, c.now.day + 1))
            /\ c.phrase \in Around("Yesterday")
                => c.exc = ""
                   /\ HeldTop(FilterOf(c), CreatedAt, DayRange(c.now.day - 1, c.now.day))

\* 'today' parsed on the day after the first, at a time that is not midnight
C7_Witness ==
    \E n \in 1..Len(calls) :
        /\ calls[n].phrase = "today"
        /\ calls[n].now.day = FirstDay + 1
        /\ calls[n].now.tod # 0
        /\ calls[n].exc = ""

RelativeClauses ==
    {[text |-> "last 10 days", days |-> 10],
     [text |-> "Last 2 Months", days |-> 60],
     [text |-> "last 3weeks", days |-> 21],
     [text |-> "last 1000000 days", days |-> 1000000]}

\* C8: 'last N days|weeks|months' yields created_at >= T - N, 7N or 30N days,
\* with no upper bound, for every N.
C8_RelativeRange ==
    \A n \in 1..Len(calls) : \A r \in RelativeClauses :
        calls[n].phrase = r.text
        => /\ calls[n].exc = ""
           /\ FilterOf(calls[n])
                  = <<Entry(CreatedAt,
                            DictV(<<Entry("$gte",
                                          DtV(calls[n].now.day - r.days,
                                              calls[n].now.tod))>>))>>

\* the predicate each clause of CoerceClauses stands for
CoerceExpect ==
    <<[text |-> "age > 10", kind |-> "cmp", k |-> "age",
       v |-> DictV(<<Entry("$gt", IntV(10))>>)],
      [text |-> "age > 10.5", kind |-> "cmp", k |-> "age",
       v |-> DictV(<<Entry("$gt", FloatV(105, -1))>>)],
      [text |-> "age > ten", kind |-> "cmp", k |-> "age",
       v |-> DictV(<<Entry("$gt", StrV("ten"))>>)],
      [text |-> "age >= -3", kind |-> "cmp", k |-> "age",
       v |-> DictV(<<Entry("$gte", IntV(-3))>>)],
      [text |-> "n equals 007", kind |-> "eq", k |-> "n", v |-> IntV(7)],
      [text |-> "n is '2.50'", kind |-> "eq", k |-> "n", v |-> FloatV(25, -1)],
      [text |-> "n is 1.2.3", kind |-> "eq", k |-> "n", v |-> StrV("1.2.3")],
      [text |-> "k in 1, 2.5,z", kind |-> "in", k |-> "k",
       v |-> DictV(<<Entry("$in", ListV(<<IntV(1), FloatV(25, -1), StrV("z")>>))>>)]>>

\* C9: a value token with a "." that parses as a number is a float, one
\* without "." that parses as an integer is an int, any other is the string
\* itself; for comparison values, equality values and the elements of an
\* 'in' list.
C9_NumericCoercion ==
    \A n \in 1..Len(calls) : \A a \in 1..Len(CoerceExpect), b \in 1..Len(CoerceExpect) :
        LET c == calls[n]
            ea == CoerceExpect[a]
            eb == CoerceExpect[b]
        IN  /\ c.phrase = ea.text
                => c.exc = "" /\ FilterOf(c) = <<Entry(ea.k, ea.v)>>
            /\ (c.phrase = ea.text \o " " \o eb.text /\ ea.kind # eb.kind /\ ea.kind # "in")
                => /\ c.exc = ""
                   /\ HeldTop(FilterOf(c), ea.k, ea.v)
                   /\ HeldTop(FilterOf(c), eb.k, eb.v)

\* a phrase with a float comparison and an int equality has been parsed
C9_Witness ==
    \E n \in 1..Len(calls) :
        /\ calls[n].phrase = "age > 10.5 n equals 007"
        /\ HeldTop(FilterOf(calls[n]), "age", DictV(<<Entry("$gt", FloatV(105, -1))>>))
        /\ HeldTop(FilterOf(calls[n]), "n", IntV(7))

\* the sort each query of ExecQueries asks for
PhraseSort(q) ==
    CASE q = "sort by y" -> Some(<<ListV(<<StrV("y"), IntV(1)>>)>>)
      [] q = "sort by y desc" -> Some(<<ListV(<<StrV("y"), IntV(-1)>>)>>)
      [] q = "status is open sort by y asc top 5 offset 10"
            -> Some(<<ListV(<<StrV("y"), IntV(1)>>)>>)
      [] OTHER -> None

\* the sort (sort_by, sort_dir) of the structured parameters
StructuredSort(ps) ==
    Some(<<ListV(<<StrV(ps.sort_by.v),
                   IntV(IF ps.sort_dir = Some("desc") THEN -1 ELSE 1)>>)>>)

\* C10 as stated: whenever the request carries a structured sort_by, the sort
\* of the query is (sort_by, sort_dir); the sort of the phrase is used only
\* when no sort_by is given.
C10_StructuredSortAlwaysWins ==
    resp.args.reached =>
        IF req.params.some /\ req.params.v.sort_by.some
        THEN resp.args.sort = StructuredSort(req.params.v)
        ELSE resp.args.sort = PhraseSort(req.query)

\* C10 amended: whenever the request carries a non-empty structured sort_by,
\* the sort of the query is (sort_by, sort_dir), ascending unless sort_dir is
\* 'desc'; the sort of the phrase is used when sort_by is absent or empty.
C10_NonEmptySortByWins ==
    resp.args.reached =>
        IF req.params.some /\ req.params.v.sort_by.some /\ req.params.v.sort_by.v # ""
        THEN resp.args.sort = StructuredSort(req.params.v)
        ELSE resp.args.sort = PhraseSort(req.query)

\* a request with sort_by x, sort_dir desc and a phrase that sorts by y
C10_Witness ==
    /\ resp.args.reached
    /\ req.query = "sort by y"
    /\ req.params.some
    /\ req.params.v.sort_by = Some("x")
    /\ req.params.v.sort_dir = Some("desc")
    /\ resp.args.sort = Some(<<ListV(<<StrV("x"), IntV(-1)>>)>>)

\* the limit, offset and projection the phrase of a request asks for
PhraseLimit(q) ==
    IF q \in {"top 5 offset 10", "status is open sort by y asc top 5 offset 10"}
    THEN 5 ELSE DefaultLimit

PhraseOffset(q) ==
    IF q \in {"top 5 offset 10", "status is open sort by y asc top 5 offset 10"}
    THEN 10 ELSE DefaultOffset

PhraseProjection(q) ==
    IF q = "fields name,age"
    THEN Some(<<Entry("name", IntV(1)), Entry("age", IntV(1)), Entry("_id", IntV(1))>>)
    ELSE None

\* the member m of the params the body of the request sent, None when the
\* body has no params or leaves m out
Supplied(m) == IF req.sent.some THEN req.sent.v[m] ELSE None

\* the projection of a list of field names, _id added when it is not named
ProjectionOf(fields) ==
    IF \E i \in 1..Len(fields) : fields[i] = "_id"
    THEN [i \in 1..Len(fields) |-> Entry(fields[i], IntV(1))]
    ELSE [i \in 1..Len(fields) |-> Entry(fields[i], IntV(1))] \o <<Entry("_id", IntV(1))>>

\* C11 as stated: for each of limit, offset, fields and sort, the query runs
\* with the value the request supplies, and with the value of the phrase when
\* the request does not supply that member (a sort_by of "" supplies no sort).
C11_FieldByFieldOverride ==
    resp.args.reached =>
        /\ resp.args.limit =
               IF Supplied("limit").some THEN Supplied("limit").v ELSE PhraseLimit(req.query)
        /\ resp.args.offset =
               IF Supplied("offset").some THEN Supplied("offset").v
               ELSE PhraseOffset(req.query)
        /\ resp.args.projection =
               IF Supplied("fields").some THEN Some(ProjectionOf(Supplied("fields").v))
               ELSE PhraseProjection(req.query)
        /\ resp.args.sort =
               IF Supplied("sort_by").some /\ Supplied("sort_by").v # ""
               THEN StructuredSort(req.params.v)
               ELSE PhraseSort(req.query)

\* the number of the first clause of is with the keyword kw, None without one
FirstOfKind(is, kw) ==
    IF \A i \in 1..Len(is) : PageClauses[is[i]].kw # kw THEN None
    ELSE Some(PageClauses[is[MinOf({i \in 1..Len(is) : PageClauses[is[i]].kw = kw})]].n)

\* the member k of a descriptor as an optional integer
IntMember(out, k) == IF HasKey(out, k) THEN Some(Get(out, k).n) ELSE None

\* the limit and offset a phrase made of the clauses is asks for
ExpectedLimit(is) ==
    IF FirstOfKind(is, "top").some THEN FirstOfKind(is, "top") ELSE FirstOfKind(is, "limit")

ExpectedOffset(is) == FirstOfKind(is, "offset")

\* C12: the limit of the descriptor is the number of the first 'top N' clause,
\* without one that of the first 'limit N' clause, without either absent,
\* whatever the order of the clauses; the offset is the number of the first
\* 'offset N' clause or absent; the two do not depend on each other.
C12_LimitOffsetExtraction ==
    \A i \in 1..Len(calls) :
        \A is \in ClauseSeqs(MaxPageClauses) :
            JoinPage(is) = calls[i].phrase =>
                /\ calls[i].exc = ""
                /\ IntMember(calls[i].out, "limit") = ExpectedLimit(is)
                /\ IntMember(calls[i].out, "offset") = ExpectedOffset(is)

\* a phrase with 'limit 7' before 'top 5' and an offset: limit 5, offset 10
C12_Witness ==
    \E i \in 1..Len(calls) :
        /\ calls[i].phrase = "limit 7 top 5 offset 10"
        /\ IntMember(calls[i].out, "limit") = Some(5)
        /\ IntMember(calls[i].out, "offset") = Some(10)

\* C13: whenever the query has a projection, built from the phrase or from
\* params.fields, it includes _id; for 'fields name,age', in the phrase or in
\* params.fields, it is exactly {name, age, _id}.
C13_ProjectionHasId ==
    resp.args.reached /\ resp.args.projection.some =>
        /\ HasKey(resp.args.projection.v, "_id")
        /\ Get(resp.args.projection.v, "_id") = IntV(1)
        /\ \/ Supplied("fields") = Some(<<"name", "age">>)
           \/ ~Supplied("fields").some /\ req.query = "fields name,age"
           => resp.args.projection.v =
                  <<Entry("name", IntV(1)), Entry("age", IntV(1)), Entry("_id", IntV(1))>>

\* the phrase 'fields name,age' with no params.fields, and params.fields
\* [name, age] with a phrase that selects nothing
C13_Witness ==
    /\ resp.args.reached
    /\ resp.args.projection.some
    /\ HasKey(resp.args.projection.v, "_id")
    /\ \/ ~Supplied("fields").some /\ req.query = "fields name,age"
       \/ Supplied("fields") = Some(<<"name", "age">>) /\ req.query = "status is open"

\* the keys of a descriptor
DescriptorKeys(out) == {out[i].k : i \in 1..Len(out)}

\* what the descriptor of the phrase p has besides the optional members: the
\* filter, no other key, and nothing but the filter for a blank phrase
ShapeBase(c) ==
    /\ c.exc = ""
    /\ HasKey(c.out, "filter") /\ IsDict(Get(c.out, "filter"))
    /\ DescriptorKeys(c.out) \subseteq {"filter", "projection", "sort", "limit", "offset"}
    /\ Strip(c.phrase, WS) = "" => c.out = <<Entry("filter", DictV(EmptyDict))>>

\* sort, limit and offset are present exactly when their pattern matches
ShapeOptions(c, p) ==
    /\ HasKey(c.out, "sort") <=> ParseSort(p).some
    /\ HasKey(c.out, "limit") <=> ParseLimitOffset(p).lim.some
    /\ HasKey(c.out, "offset") <=> ParseLimitOffset(p).off.some

\* C14 as stated: 'filter' is always present, and each of 'projection',
\* 'sort', 'limit', 'offset' is present exactly when its recognizer matched in
\* the phrase; the descriptor of a blank phrase is {filter: {}}.
C14_OptionPresentIffMatched ==
    \A i \in 1..Len(calls) :
        /\ ShapeBase(calls[i])
        /\ ShapeOptions(calls[i], Strip(calls[i].phrase, WS))
        /\ HasKey(calls[i].out, "projection")
               <=> ParseFields(Strip(calls[i].phrase, WS)).some

\* C14 amended: the same, with 'projection' present exactly when the fields
\* recognizer matched and its list names at least one field.
C14_ProjectionIffFieldNamed ==
    \A i \in 1..Len(calls) :
        /\ ShapeBase(calls[i])
        /\ ShapeOptions(calls[i], Strip(calls[i].phrase, WS))
        /\ HasKey(calls[i].out, "projection")
               <=> /\ ParseFields(Strip(calls[i].phrase, WS)).some
                   /\ ParseFields(Strip(calls[i].phrase, WS)).v # <<>>

\* a phrase with a sort and a limit but no offset and no field list
C14_Witness ==
    \E i \in 1..Len(calls) :
        /\ calls[i].phrase = "sort by y desc top 5"
        /\ DescriptorKeys(calls[i].out) = {"filter", "sort", "limit"}

\* C15: a phrase and the phrase that differs from it only in the letter case of
\* recognizer keywords have the same descriptor at the same reference instant.
C15_KeywordCaseInsensitive ==
    \A i \in 1..Len(calls) :
        \A pr \in CasePairs :
            pr.text = calls[i].phrase =>
                ParseAt(pr.other, calls[i].now) = [exc |-> calls[i].exc, out |-> calls[i].out]

\* C16: a limit in a descriptor is an integer >= 1 and an offset in a
\* descriptor is an integer >= 0.
C16_PaginationValues ==
    \A i \in 1..Len(calls) :
        /\ IntMember(calls[i].out, "limit").some => IntMember(calls[i].out, "limit").v >= 1
        /\ IntMember(calls[i].out, "offset").some => IntMember(calls[i].out, "offset").v >= 0

\* C17: under every interleaving, a call that has ended returned (or raised)
\* what parse_nlq_to_query returns for its phrase and reference instant when
\* run alone, and no two calls work on or return the same filter dict.
C17_ConcurrentParsesIndependent ==
    \A t \in 1..NumThreads :
        /\ threads[t].pc = PcDone =>
               [exc |-> threads[t].exc, out |-> threads[t].out]
                   = ParseAt(threads[t].phrase, threads[t].now)
        /\ \A u \in 1..NumThreads :
               u # t /\ threads[t].pc # PcIdle /\ threads[u].pc # PcIdle
                   => threads[t].ref # threads[u].ref

\* a call has returned a descriptor with a filter while another thread is in
\* the middle of _collect_filters with predicates in its accumulator
C17_Witness ==
    \E t, u \in 1..NumThreads :
        /\ t # u
        /\ threads[t].pc = PcDone /\ threads[t].exc = ""
        /\ Get(threads[t].out, "filter").d # EmptyDict
        /\ threads[u].pc \in 2..(PcAssemble - 1)
        /\ heap[threads[u].ref] # EmptyDict

\* the query of the request is empty or blank
BlankQuery == Strip(req.query, WS) = ""

\* C18: execute_nlq answers 404 when NLQ is disabled, whatever the query; else
\* 400 for an empty or blank query, without parsing it and without asking for
\* the collection, also while the database is unavailable; else it parses the
\* phrase and then answers 503 because the database is unavailable.
C18_ChecksInOrder ==
    resp # NoResp =>
        /\ ~settings.ENABLE_NLQ => resp.status = 404 /\ ~resp.args.reached
        /\ settings.ENABLE_NLQ /\ BlankQuery => resp.status = 400 /\ ~resp.args.reached
        /\ settings.ENABLE_NLQ /\ ~BlankQuery /\ ParseNlqToQuery(req.query).exc = ""
               => resp.status = 503 /\ resp.args.reached /\ ~GetCollection(req.collection).some

\* a blank query answered with 400 while no client is connected
C18_Witness ==
    /\ settings.ENABLE_NLQ
    /\ req.query = "  "
    /\ ~GetClient.some
    /\ resp.status = 400

\* the calls that hand out the shared client
HandOut == {"connect_client", "get_client"}

\* C19: while a client is set, connect_client and get_client return that
\* client and create no other; connect_client with no MONGO_URI returns None
\* and leaves the client unset; close_client leaves the client unset; with the
\* client unset, get_client, get_database and get_collection return None.
C19_SingleSharedClient ==
    \A i \in 1..Len(mongo.log) :
        LET c == mongo.log[i]
        IN  /\ c.op \in HandOut /\ c.before.some
                   => c.ret = Ret(c.before) /\ c.after = c.before
            /\ c.op = "connect_client" /\ ~c.before.some /\ ~Truthy(mongo.uri)
                   => c.ret = Ret(None) /\ ~c.after.some
            /\ c.op = "close_client" => ~c.after.some
            /\ c.op \in {"get_client", "get_database", "get_collection"} /\ ~c.before.some
                   => c.ret = Ret(None)

\* C20: the source GET /debug/config reports is the source _get_db_url
\* resolves the URL from, and it reports "unconfigured" exactly when
\* _get_db_url raises ValueError.
C20_ReportedSourceIsUsed ==
    dbconf.report.some /\ dbconf.url.some
        => /\ dbconf.url.v.exc = "" => dbconf.report.v.source = dbconf.url.v.source
           /\ dbconf.report.v.source = "unconfigured" <=> dbconf.url.v.exc = "ValueError"

\* SUPABASE_URL or SUPABASE_ANON_KEY is missing or blank
CredentialsMissing ==
    OrEmptyStrip(settings.SUPABASE_URL) = "" \/ OrEmptyStrip(settings.SUPABASE_ANON_KEY) = ""

\* C21: POST /supabase/query answers 404 when ENABLE_SUPABASE is off and 503
\* when the flag is on but SUPABASE_URL or SUPABASE_ANON_KEY is missing or
\* blank; it reaches the client only with the flag on and both present.
C21_SupabaseStatusCodes ==
    \A i \in 1..Len(supa.log) :
        /\ ~settings.ENABLE_SUPABASE => supa.log[i].status = 404
        /\ settings.ENABLE_SUPABASE /\ CredentialsMissing => supa.log[i].status = 503
        /\ supa.log[i].reached => settings.ENABLE_SUPABASE /\ ~CredentialsMissing

\* the keys of a dict
Keys(d) == {d[i].k : i \in 1..Len(d)}

\* the last merge met an operator map with an operator map on the same field
OperatorMapsMeet ==
    /\ merges > 0
    /\ HasKey(pre, frag[1].k)
    /\ IsDict(Get(pre, frag[1].k))
    /\ IsDict(frag[1].v)

\* m is the key-union of the maps old and new, the incoming value taken for
\* an operator of both
KeyUnion(m, old, new) ==
    /\ Keys(m) = Keys(old) \cup Keys(new)
    /\ \A op \in Keys(new) : Get(m, op) = Get(new, op)
    /\ \A op \in Keys(old) \ Keys(new) : Get(m, op) = Get(old, op)

\* C22: when the field of the incoming fragment is in the accumulator and
\* both values are operator maps, the merge leaves the key-union of the two
\* maps at the field (incoming value for an operator of both, existing-only
\* operators kept), creates or changes no $and list and touches no other
\* top-level key.
C22_OperatorMapsUnion ==
    OperatorMapsMeet =>
        /\ Len(acc) = Len(pre)
        /\ \A i \in 1..Len(pre) :
               /\ acc[i].k = pre[i].k
               /\ pre[i].k # frag[1].k => acc[i].v = pre[i].v
        /\ IsDict(Get(acc, frag[1].k))
        /\ KeyUnion(Get(acc, frag[1].k).d, Get(pre, frag[1].k).d, frag[1].v.d)

\* two operator maps with an operator in common and one in the existing map
\* only met, with another field and an $and list in the accumulator
C22_Witness ==
    /\ OperatorMapsMeet
    /\ HasKey(pre, AndKey)
    /\ Keys(Get(pre, frag[1].k).d) \cap Keys(frag[1].v.d) # {}
    /\ Keys(Get(pre, frag[1].k).d) \ Keys(frag[1].v.d) # {}
    /\ Get(acc, frag[1].k) # Get(pre, frag[1].k)

\* C23: the created_at predicate the date keywords of a phrase contribute is
\* the predicate of one shape: the day range of 'today', the day range of
\* 'yesterday', or the lower bound alone of 'last N unit'; never bounds of
\* two shapes.
C23_OneTemporalShape ==
    \A n \in 1..Len(calls) :
        (calls[n].exc = "" /\ HasKey(FilterOf(calls[n]), CreatedAt))
        => \/ Get(FilterOf(calls[n]), CreatedAt)
                  = DayRange(calls[n].now.day, calls[n].now.day + 1)
           \/ Get(FilterOf(calls[n]), CreatedAt)
                  = DayRange(calls[n].now.day - 1, calls[n].now.day)
           \/ /\ IsDict(Get(FilterOf(calls[n]), CreatedAt))
              /\ Keys(Get(FilterOf(calls[n]), CreatedAt).d) = {"$gte"}

\* the clauses of kind k among the clauses is of a phrase, as positions
OfKind(Cl, is, k) == {i \in 1..Len(is) : Cl[is[i]].kind = k}

\* the first clause of kind k of the phrase
FirstClause(Cl, is, k) == Cl[is[MinOf(OfKind(Cl, is, k))]]

\* what the claim says _parse_category returns for the phrase of the clauses is
CategorySaid(out, is) ==
    IF OfKind(CategoryClauses, is, "colon") # {}
    THEN out = Some(<<Entry(FirstClause(CategoryClauses, is, "colon").field,
                            FirstClause(CategoryClauses, is, "colon").v)>>)
    ELSE IF OfKind(CategoryClauses, is, "in") # {}
    THEN /\ out.some
         /\ Len(out.v) = 1
         /\ out.v[1].k = FirstClause(CategoryClauses, is, "in").field
         /\ IsDict(out.v[1].v)
         /\ Keys(out.v[1].v.d) = {"$in"}
         /\ MinOf(OfKind(CategoryClauses, is, "in")) = Len(is)
                => Get(out.v[1].v.d, "$in") = FirstClause(CategoryClauses, is, "in").v
    ELSE out = None

\* C24: with a colon form '<field>: <value>' anywhere in the phrase,
\* _parse_category returns only {field: value} with the value a string, and a
\* membership clause of the phrase contributes nothing; with no colon form,
\* '<field> in a,b,c' gives {field: {$in: [...]}} with each element trimmed
\* and coerced by itself.
C24_ColonFormFirst ==
    \A j \in 1..Len(recog) : \A pr \in CategoryCases :
        (recog[j].name = "category" /\ pr.text = phrase) => CategorySaid(recog[j].out, pr.is)

\* _parse_category was called on a phrase with a membership clause and a
\* colon form after it, whose value is written with digits
C24_Witness ==
    /\ phrase = "k in 1, 2.5,z category: 5"
    /\ \E j \in 1..Len(recog) :
           /\ recog[j].name = "category"
           /\ recog[j].out = Some(<<Entry("category", StrV("5"))>>)

\* the fragment the claim says the recognizer of kind k contributes for the
\* phrase of the clauses is: the predicate of its first clause, as a dict
FirstFragment(is, k) ==
    IF OfKind(FirstClauses, is, k) = {} THEN <<>>
    ELSE <<Entry(FirstClause(FirstClauses, is, k).field, FirstClause(FirstClauses, is, k).v)>>

\* C25: the comparison, the equality and the contains recognizer each return
\* the fragment of the leftmost clause of their kind, or nothing, and the
\* filter of a parse holds these fragments only: a later clause of the same
\* recognizer, on the same or another field, adds nothing.
C25_FirstMatchOnly ==
    \A pr \in FirstCases :
        pr.text = phrase =>
            /\ \A j \in 1..Len(recog) :
                   recog[j].name \in {"comparison", "equality", "contains"}
                   => recog[j].out = IF FirstFragment(pr.is, recog[j].name) = <<>> THEN None
                                     ELSE Some(FirstFragment(pr.is, recog[j].name))
            /\ \A n \in 1..Len(calls) :
                   /\ calls[n].exc = ""
                   /\ FilterOf(calls[n])
                          = FirstFragment(pr.is, "comparison")
                            \o FirstFragment(pr.is, "equality")
                            \o FirstFragment(pr.is, "contains")

\* a phrase with two comparisons on one field was parsed, and the comparison
\* recognizer called on it
C25_Witness ==
    /\ phrase = "x > 1 x < 9"
    /\ \E j \in 1..Len(recog) : recog[j].name = "comparison"
    /\ \E n \in 1..Len(calls) :
           FilterOf(calls[n]) = <<Entry("x", DictV(<<Entry("$gt", IntV(1))>>))>>

\* phrase is the list clause l, alone or with one clause after it
Followed(l) == phrase = l \/ \E f \in Followers : phrase = l \o " " \o f

\* {a: 1, b: 1, _id: 1}
ProjectionAB == DictV(<<Entry("a", IntV(1)), Entry("b", IntV(1)), Entry("_id", IntV(1))>>)

\* C28: a clause after 'fields a,b' or 'select a,b' leaves the projection
\* {a, b, _id}, and a clause after 'x in a,b' leaves the $in list [a, b]: a
\* comma-separated list takes no word of the clause that follows it.
C28_ListEndsWithItsText ==
    \A n \in 1..Len(calls) :
        /\ (Followed("fields a,b") \/ Followed("select a,b"))
               => /\ calls[n].exc = ""
                  /\ HasKey(calls[n].out, "projection")
                  /\ Get(calls[n].out, "projection") = ProjectionAB
        /\ Followed("x in a,b")
               => /\ calls[n].exc = ""
                  /\ FilterOf(calls[n])
                         = <<Entry("x", DictV(<<Entry("$in", ListV(<<StrV("a"), StrV("b")>>))>>))>>

\* the sources of the database URL, first the one that wins
SourceOrder ==
    <<"SUPABASE_DB_URL", "DATABASE_URL", "SUPABASE_DB_CONNECTION_STRING", "discrete">>

\* the source s is set: a connection string with a character that is not
\* white space, or all of user, password, host and dbname with a value
SourceSet(s) ==
    IF s = "discrete"
    THEN \A n \in {"user", "password", "host", "dbname"} : env[n].some /\ env[n].v # ""
    ELSE settings[s].some /\ Strip(settings[s].v, WS) # ""

\* no source of the database URL is set
Unconfigured == \A i \in 1..Len(SourceOrder) : ~SourceSet(SourceOrder[i])

\* the steps of a call that come after the URL was resolved
PastResolve == {"create_engine", "sessionmaker", "return"}

C27_OneEngineOneFactory ==
    /\ eng.made.e <= 1 /\ eng.made.f <= 1
    /\ Cardinality(eng.engines) <= 1 /\ Cardinality(eng.factories) <= 1
    /\ \A e \in eng.engines : \A f \in eng.factories : f.bind = e

\* the phrases whose limit clause says 0
ZeroLimitQueries == {"top 0", "limit 0 offset 0", "top 0 limit 7"}

\* C29: once the phrase is parsed, the limit execute_nlq queries with is at
\* least 1 and the offset at least 0, whatever the phrase and the params; for
\* a request without params a limit of 0 in the phrase becomes 50 and a
\* phrase with no offset clause gives offset 0.
C29_EffectivePageInRange ==
    resp.args.reached
        => /\ resp.args.limit >= 1 /\ resp.args.offset >= 0
           /\ ~req.params.some /\ req.query \in ZeroLimitQueries => resp.args.limit = 50
           /\ ~req.params.some /\ ~HasSub(req.query, "offset") => resp.args.offset = 0

\* 'top 0' without params was coalesced to the limit 50
C29_Witness ==
    /\ resp.args.reached /\ req.query = "top 0" /\ ~req.params.some
    /\ resp.args.limit = 50 /\ resp.args.offset = 0

\* C30: from the start of the application no state has a connected Mongo
\* client; every request to a route of routers/data.py, and every POST
\* /nlq/query that passes the 404 and the 400 check, is answered 503, and no
\* request goes on to the database.
C30_MongoRoutesAnswer503 ==
    /\ ~client.some
    /\ app.route \in DataRoutes => app.status = 503
    /\ app.route = "POST /nlq/query" /\ settings.ENABLE_NLQ /\ ~BlankQuery
           => app.status = 503

====
